---- MODULE Spec2Model ----
(***************************************************************************)
(* Model of the Discord FAQ bot's channel commands                         *)
(* (src/message_management.py): insert_message, republish, summary,        *)
(* save_messages, publish, edit_message and fix_item_links.                *)
(*                                                                         *)
(* A channel is the ordered log of its messages, oldest first.  A command  *)
(* handler is a process that moves from one await to the next; every       *)
(* action below is the code between two awaits of a handler.               *)
(***************************************************************************)
EXTENDS Integers, Sequences, FiniteSets, TLC

(***************************************************************************)
(* Bounds of the model.                                                    *)
(***************************************************************************)
\* Longest channel history the initial state draws.
MaxMsgs == 3
\* Most segments (plain pieces, bare links, display links) of a text given
\* to fix_item_links.
MaxSegs == 3
\* Most segments of a reply to edit_message.
MaxReplySegs == 2
\* Longest channel history drawn for two interleaved insertions.
MaxPairMsgs == 2
\* Most rows the trigger table is ever given (the cap on AUTOINCREMENT).
MaxRows == 2
\* Most replies on_message sends in one behaviour.
MaxReplies == 1

(***************************************************************************)
(* Identities, channels, handler processes.                                *)
(***************************************************************************)
\* self.bot.user, the automation identity
Bot == "bot"
\* any other author
User == "user"
Authors == {Bot, User}
\* ctx.channel: channel 1 holds the drawn history, channel 2 starts empty
Chans == {1, 2}
\* handler invocations that may be in flight
Procs == {"A", "B"}
\* no message chosen yet
NoTarget == 0

(***************************************************************************)
(* Message content.  A text is a sequence of tokens; a token stands for a  *)
(* character or for a run of characters the handlers treat as one piece.   *)
(***************************************************************************)
\* message.content == "" (falsy)
Empty == <<>>
\* the literal "*** ***"
Blank == <<"*** ***">>
\* the literal "**[PH]**"
PH == <<"**[PH]**">>
\* Embed title of the table of contents (the literal of summary / republish)
TocTitle == "TOC"
NoTitle == "none"
\* a word that tells the text of message n from the others
Word(n) == <<"m1", "m2", "m3", "m4", "m5", "m6", "m7", "m8", "m9">>[n]

\* emoji_management.emojify: a shortcode ":e:" becomes emoji markup "<e>"
emojify(c) == [k \in 1..Len(c) |-> IF c[k] = ":e:" THEN "<e>" ELSE c[k]]
\* emoji_management.deemojify: emoji markup becomes its shortcode
deemojify(c) == [k \in 1..Len(c) |-> IF c[k] = "<e>" THEN ":e:" ELSE c[k]]
\* match(reTitleGroup, content) is not None: the text begins with a
\* bold-delimited title
TitleMatch(c) == Len(c) > 0 /\ c[1] = "**T**"
\* rslt.group(1).replace('#', '').strip()
TitleText(c) == IF Len(c) > 1 THEN c[2] ELSE ""

(***************************************************************************)
(* The item catalog (the Blizzard API behind get_item_name).               *)
(***************************************************************************)
\* the item ids texts refer to
ItemIds == {1, 2}
\* "item=<id>" in a URL
ItemTok(id) == IF id = 1 THEN "item=1" ELSE "item=2"
ItemTokens == {ItemTok(id) : id \in ItemIds}
\* the (\d+) group
ItemIdOf(t) == CHOOSE id \in ItemIds : ItemTok(id) = t
\* response.json()["name"] of an item
NameTok(id) == IF id = 1 THEN "N1" ELSE "N2"
\* get_item_name returned None (the request failed), or an empty name
NoName == ""

(***************************************************************************)
(* Messages.                                                               *)
(***************************************************************************)
Msg(id, author, content, attachments, embeds) ==
    [id |-> id, author |-> author, content |-> content,
     attachments |-> attachments, embeds |-> embeds]

\* discord.Embed(title=..., description=...)
Embed(title, description) == [title |-> title, description |-> description]

\* The shapes of message the initial history is drawn from; n is the
\* message's serial number, which keeps texts and attachment bytes apart.
Kinds == {"botTitle", "botAtt", "botAttOnly", "botToc", "botEmbed",
          "userMarkup", "userShort", "userTitle"}

MkMsg(n, k) ==
    CASE k = "botTitle"   -> Msg(n, Bot, <<"**T**", Word(n)>>, <<>>, <<>>)
      [] k = "botAtt"     -> Msg(n, Bot, <<Word(n)>>, <<10 * n + 1>>, <<>>)
      [] k = "botAttOnly" -> Msg(n, Bot, Empty, <<10 * n + 1, 10 * n + 2>>, <<>>)
      [] k = "botToc"     -> Msg(n, Bot, Empty, <<>>, <<Embed(TocTitle, <<>>)>>)
      [] k = "botEmbed"   -> Msg(n, Bot, <<"<e>", Word(n)>>, <<>>,
                                 <<Embed(NoTitle, <<"desc", Word(n)>>)>>)
      [] k = "userMarkup" -> Msg(n, User, <<"<e>", Word(n)>>, <<10 * n + 1>>, <<>>)
      [] k = "userShort"  -> Msg(n, User, <<":e:", Word(n)>>, <<>>, <<>>)
      [] k = "userTitle"  -> Msg(n, User, <<"**T**", Word(n)>>, <<>>, <<>>)

(***************************************************************************)
(* The Ordered Log Adapter: what the discord client does to a channel.     *)
(***************************************************************************)
Ids(ch) == {ch[i].id : i \in 1..Len(ch)}
IdSeq(ch) == [i \in 1..Len(ch) |-> ch[i].id]
HasMsg(ch, id) == id \in Ids(ch)
\* channel.fetch_message(id)
Fetch(ch, id) == ch[CHOOSE i \in 1..Len(ch) : ch[i].id = id]
\* (variant for C2) an edit done as delete-and-send-again: the message
\* moves to the end of the channel
EditMsgResend(ch, id, content, attachments, embeds) ==
    LET old == ch[CHOOSE i \in 1..Len(ch) : ch[i].id = id]
    IN  Append(SelectSeq(ch, LAMBDA m : m.id # id),
               [id |-> id, author |-> old.author, content |-> content,
                attachments |-> attachments, embeds |-> embeds])

\* Message.edit: the message keeps its id and its place
EditMsg(ch, id, content, attachments, embeds) ==
    [i \in 1..Len(ch) |->
        IF ch[i].id = id
        THEN Msg(id, ch[i].author, content, attachments, embeds)
        ELSE ch[i]]
\* Message.delete
RECURSIVE DeleteMsg(_, _)
DeleteMsg(ch, id) ==
    IF ch = <<>> THEN <<>>
    ELSE IF Head(ch).id = id THEN Tail(ch)
    ELSE <<Head(ch)>> \o DeleteMsg(Tail(ch), id)
\* The messages of one author, oldest first
RECURSIVE OwnedBy(_, _)
OwnedBy(ch, a) ==
    IF ch = <<>> THEN <<>>
    ELSE IF Head(ch).author = a THEN <<Head(ch)>> \o OwnedBy(Tail(ch), a)
    ELSE OwnedBy(Tail(ch), a)

(***************************************************************************)
(* State.                                                                  *)
(***************************************************************************)
VARIABLES
    chan,     \* chan[c]: the messages of channel c, oldest first
    nextId,   \* the id the platform gives the next message sent
    disk,     \* the bot's files: under FILEPATH the bundle document and the
              \* attachment files, and the trigger database
    pc,       \* pc[p]: where handler p stands
    loc,      \* loc[p]: the local variables of handler p
    log,      \* every call made on ctx / channel / message, in order
    pre,      \* chan as it was when the running command was invoked (the
              \* first of them, when two invocations are under way)
    catalog   \* the item catalog: catalog[id] is the item's name, or NoName
              \* (the environment's: no handler changes it)

vars == <<chan, nextId, disk, pc, loc, log, pre, catalog>>

NoMsg == Msg(0, Bot, Empty, <<>>, <<>>)

\* message_url = None; message_id = None (NULL in the table)
NoUrl == <<>>
NoId == 0
\* The table message_triggers as init_db creates it: no row; seq is the
\* largest id AUTOINCREMENT has given.
InitDb == [rows |-> <<>>, seq |-> 0]
\* The arguments of a trigger command, the inbound message of on_message.
NoArgs == [patterns |-> <<>>, response_text |-> <<>>, message_url |-> NoUrl]
NoInbound == [chn |-> 1, guild |-> TRUE, bot |-> FALSE, content |-> <<>>]

\* The locals of a handler before it is invoked.
InitLoc ==
    [cmd |-> "none", chn |-> 1, target |-> NoTarget, ids |-> <<>>, i |-> 0,
     crt |-> NoMsg, nxt |-> NoMsg, iter |-> <<>>, ret |-> "done",
     description |-> <<>>, msgs |-> <<>>,
     \* edit_message / fix_item_links
     answ |-> [content |-> <<>>, attachments |-> <<>>],
     item_ids |-> <<>>, id_to_name |-> <<>>, pending |-> {},
     \* bookkeeping: the requests made, the texts before and after
     token |-> "none", lookups |-> <<>>, calls |-> 0,
     orig |-> <<>>, out1 |-> <<>>,
     \* set_trigger / delete_trigger / on_message
     args |-> NoArgs, message_id |-> NoId, inbound |-> NoInbound,
     rows |-> <<>>, reply_content |-> <<>>,
     \* bookkeeping: the table when the handler was invoked
     db0 |-> InitDb]

\* FILEPATH before any save: no bundle document (json is the parsed
\* document, empty when the file is not there), no attachment file; and
\* DB_PATH, the trigger database, after init_db.
InitDisk == [json |-> <<>>, png |-> <<>>, db |-> InitDb]
\* Path(f"{FILEPATH}/{filename}.json").is_file()
BundleExists == Len(disk.json) > 0

Init ==
    /\ \E n \in 0..MaxMsgs : \E ks \in [1..n -> Kinds] :
          /\ chan = [c \in Chans |->
                        IF c = 1 THEN [i \in 1..n |-> MkMsg(i, ks[i])] ELSE <<>>]
          /\ nextId = n + 1
    /\ disk = InitDisk
    /\ pc = [p \in Procs |-> "idle"]
    /\ loc = [p \in Procs |-> InitLoc]
    /\ log = <<>>
    /\ pre = chan
    /\ catalog = [id \in ItemIds |-> NoName]

\* ctx.respond(text)
Respond(p, text) == <<p, "respond", text>>
Call(p, what, id) == <<p, what, id>>

\* channel.send(...): the new message is the newest of the channel
Send(c, content, attachments, embeds) ==
    /\ chan' = [chan EXCEPT ![c] =
                   Append(@, Msg(nextId, Bot, content, attachments, embeds))]
    /\ nextId' = nextId + 1

(***************************************************************************)
(* insert_message                                                          *)
(***************************************************************************)
\* The history walk of insert_message: newest first, the ids of the bot's
\* messages up to and including the target.
RECURSIVE WalkNewestFirst(_, _, _, _)
WalkNewestFirst(ch, i, target, acc) ==
    IF i = 0 THEN acc
    ELSE IF ch[i].author = Bot
         THEN IF ch[i].id = target
              THEN Append(acc, ch[i].id)
              ELSE WalkNewestFirst(ch, i - 1, target, Append(acc, ch[i].id))
         ELSE WalkNewestFirst(ch, i - 1, target, acc)

\* (variant for C1) the walk done oldest first
RECURSIVE WalkOldestFirst(_, _, _, _)
WalkOldestFirst(ch, i, target, acc) ==
    IF i > Len(ch) THEN acc
    ELSE IF ch[i].author = Bot
         THEN IF ch[i].id = target
              THEN Append(acc, ch[i].id)
              ELSE WalkOldestFirst(ch, i + 1, target, Append(acc, ch[i].id))
         ELSE WalkOldestFirst(ch, i + 1, target, acc)

CollectBotMsgsOldestFirst(ch, target) == WalkOldestFirst(ch, 1, target, <<>>)

CollectBotMsgs(ch, target) == WalkNewestFirst(ch, Len(ch), target, <<>>)

\* (variant for C12) no shift at all: the target is overwritten directly
ShiftStepsNone(ids) == 0

\* range(len(chnl_bot_msgs[0:-1]))
ShiftSteps(ids) == IF Len(ids) = 0 THEN 0 ELSE Len(ids) - 1

\* The command is invoked on a message of the channel; the handler answers
\* the interaction at once.
InsertStart(p, c, m) ==
    /\ pc[p] = "idle"
    /\ m \in Ids(chan[c])
    /\ pc' = [pc EXCEPT ![p] = "ins_send"]
    /\ loc' = [loc EXCEPT ![p] = [InitLoc EXCEPT !.cmd = "insert_message",
                                                 !.chn = c, !.target = m]]
    /\ log' = Append(log, Respond(p, "Inserted empty message"))
    /\ pre' = IF \A q \in Procs : pc[q] = "idle" THEN chan ELSE pre
    /\ UNCHANGED <<chan, nextId, disk, catalog>>

\* (variant for C15) no placeholder is appended before the walk
InsertSendSkipped(p) ==
    /\ pc[p] = "ins_send"
    /\ pc' = [pc EXCEPT ![p] = "ins_walk"]
    /\ UNCHANGED <<chan, nextId, disk, loc, log, pre, catalog>>

\* await ctx.channel.send("*** ***")
InsertSend(p) ==
    /\ pc[p] = "ins_send"
    /\ Send(loc[p].chn, Blank, <<>>, <<>>)
    /\ log' = Append(log, Call(p, "send", nextId))
    /\ pc' = [pc EXCEPT ![p] = "ins_walk"]
    /\ UNCHANGED <<disk, loc, pre, catalog>>

\* async for msg in ctx.channel.history(): ...
InsertWalk(p) ==
    /\ pc[p] = "ins_walk"
    /\ LET ids == CollectBotMsgs(chan[loc[p].chn], loc[p].target) IN
          /\ loc' = [loc EXCEPT ![p].ids = ids, ![p].i = 0]
          /\ pc' = [pc EXCEPT ![p] =
                       IF ShiftSteps(ids) > 0 THEN "ins_fetch" ELSE "ins_final"]
    /\ UNCHANGED <<chan, nextId, disk, log, pre, catalog>>

\* (variant for C14) from the second step on, the source of a step is the
\* message the step before has overwritten
InsertFetchOverwritten(p) ==
    /\ pc[p] = "ins_fetch"
    /\ LET ch == chan[loc[p].chn]
           a == loc[p].ids[loc[p].i + 1]
           b == loc[p].ids[IF loc[p].i > 0 THEN loc[p].i ELSE loc[p].i + 2]
       IN IF HasMsg(ch, a) /\ HasMsg(ch, b)
          THEN /\ loc' = [loc EXCEPT ![p].crt = Fetch(ch, a),
                                     ![p].nxt = Fetch(ch, b)]
               /\ pc' = [pc EXCEPT ![p] = "ins_edit"]
          ELSE /\ pc' = [pc EXCEPT ![p] = "failed"]
               /\ loc' = loc
    /\ UNCHANGED <<chan, nextId, disk, log, pre, catalog>>

\* msg_crt, msg_nxt = await asyncio.gather(fetch_message, fetch_message)
InsertFetch(p) ==
    /\ pc[p] = "ins_fetch"
    /\ LET ch == chan[loc[p].chn]
           a == loc[p].ids[loc[p].i + 1]
           b == loc[p].ids[loc[p].i + 2]
       IN IF HasMsg(ch, a) /\ HasMsg(ch, b)
          THEN /\ loc' = [loc EXCEPT ![p].crt = Fetch(ch, a),
                                     ![p].nxt = Fetch(ch, b)]
               /\ pc' = [pc EXCEPT ![p] = "ins_edit"]
          ELSE \* discord.NotFound
               /\ pc' = [pc EXCEPT ![p] = "failed"]
               /\ loc' = loc
    /\ UNCHANGED <<chan, nextId, disk, log, pre, catalog>>

\* (variant for C21) the step copies the text alone: the files and the
\* embeds of the source are not carried over
InsertShiftTextOnly(p) ==
    /\ pc[p] = "ins_edit"
    /\ LET c == loc[p].chn
           crt == loc[p].crt
           nxt == loc[p].nxt
       IN IF HasMsg(chan[c], crt.id)
          THEN /\ chan' = [chan EXCEPT ![c] =
                              EditMsg(@, crt.id, nxt.content, <<>>, <<>>)]
               /\ log' = Append(log, Call(p, "shift", crt.id))
               /\ loc' = [loc EXCEPT ![p].i = @ + 1]
               /\ pc' = [pc EXCEPT ![p] =
                            IF loc[p].i + 1 < ShiftSteps(loc[p].ids)
                            THEN "ins_fetch" ELSE "ins_final"]
          ELSE /\ pc' = [pc EXCEPT ![p] = "failed"]
               /\ UNCHANGED <<chan, log, loc>>
    /\ UNCHANGED <<nextId, disk, pre, catalog>>

\* await msg_crt.edit(content=msg_nxt.content, attachments=[], files=...,
\*                    embeds=msg_nxt.embeds, ...)
InsertShift(p) ==
    /\ pc[p] = "ins_edit"
    /\ LET c == loc[p].chn
           crt == loc[p].crt
           nxt == loc[p].nxt
       IN IF HasMsg(chan[c], crt.id)
          THEN /\ chan' = [chan EXCEPT ![c] =
                              EditMsg(@, crt.id, nxt.content, nxt.attachments,
                                      nxt.embeds)]
               /\ log' = Append(log, Call(p, "shift", crt.id))
               /\ loc' = [loc EXCEPT ![p].i = @ + 1]
               /\ pc' = [pc EXCEPT ![p] =
                            IF loc[p].i + 1 < ShiftSteps(loc[p].ids)
                            THEN "ins_fetch" ELSE "ins_final"]
          ELSE /\ pc' = [pc EXCEPT ![p] = "failed"]
               /\ UNCHANGED <<chan, log, loc>>
    /\ UNCHANGED <<nextId, disk, pre, catalog>>

\* The text insert_message writes into the target.
InsertedContent == PH

\* await message.edit(content="**[PH]**", suppress=True, embeds=[])
\* The platform lets an identity edit its own messages only.
InsertFinal(p) ==
    /\ pc[p] = "ins_final"
    /\ LET c == loc[p].chn
           t == loc[p].target
       IN IF HasMsg(chan[c], t) /\ Fetch(chan[c], t).author = Bot
          THEN /\ chan' = [chan EXCEPT ![c] =
                              EditMsg(@, t, InsertedContent,
                                      Fetch(chan[c], t).attachments, <<>>)]
               /\ log' = Append(log, Call(p, "edit", t))
               /\ pc' = [pc EXCEPT ![p] = "done"]
          ELSE \* discord.Forbidden / discord.NotFound
               /\ pc' = [pc EXCEPT ![p] = "failed"]
               /\ UNCHANGED <<chan, log>>
    /\ UNCHANGED <<nextId, disk, loc, pre, catalog>>

Insert(p) ==
    \/ \E c \in Chans : \E m \in Ids(chan[c]) : InsertStart(p, c, m)
    \/ InsertSend(p)
    \/ InsertWalk(p)
    \/ InsertFetch(p)
    \/ InsertShift(p)
    \/ InsertFinal(p)

(***************************************************************************)
(* summary                                                                 *)
(***************************************************************************)
\* (variant for C10) every message gets an entry, titled or not
RECURSIVE SummaryOfAll(_)
SummaryOfAll(ms) ==
    IF ms = <<>> THEN <<>>
    ELSE <<[title |-> TitleText(Head(ms).content), url |-> Head(ms).id]>>
         \o SummaryOfAll(Tail(ms))

\* The loop of summary over channel.history(oldest_first=True): one entry
\* "[title](jump_url)" per message whose content matches the title pattern.
RECURSIVE SummaryDescription(_)
SummaryDescription(ms) ==
    IF ms = <<>> THEN <<>>
    ELSE (IF TitleMatch(Head(ms).content)
          THEN <<[title |-> TitleText(Head(ms).content), url |-> Head(ms).id]>>
          ELSE <<>>)
         \o SummaryDescription(Tail(ms))

SummaryStart(p, c) ==
    /\ pc[p] = "idle"
    /\ pc' = [pc EXCEPT ![p] = "sum_scan"]
    /\ loc' = [loc EXCEPT ![p] = [InitLoc EXCEPT !.cmd = "summary", !.chn = c,
                                                 !.ret = "done"]]
    /\ log' = Append(log, Respond(p, "Starting the process..."))
    /\ pre' = chan
    /\ UNCHANGED <<chan, nextId, disk, catalog>>

\* async for msg in ctx.channel.history(oldest_first=True): description += ...
SummaryScan(p) ==
    /\ pc[p] = "sum_scan"
    /\ loc' = [loc EXCEPT ![p].description = SummaryDescription(chan[loc[p].chn])]
    /\ pc' = [pc EXCEPT ![p] = "sum_send"]
    /\ UNCHANGED <<chan, nextId, disk, log, pre, catalog>>

\* await ctx.channel.send(content=None, embed=discord.Embed(title=..., ...))
SummarySend(p) ==
    /\ pc[p] = "sum_send"
    /\ Send(loc[p].chn, Empty, <<>>, <<Embed(TocTitle, loc[p].description)>>)
    /\ log' = Append(log, Call(p, "send", nextId))
    /\ pc' = [pc EXCEPT ![p] = loc[p].ret]
    /\ UNCHANGED <<disk, loc, pre, catalog>>

Summary(p) ==
    \/ \E c \in Chans : SummaryStart(p, c)
    \/ SummaryScan(p)
    \/ SummarySend(p)

(***************************************************************************)
(* republish                                                               *)
(***************************************************************************)
\* (variant for C3) the loop reads the channel as it is now, not the
\* history fetched when the loop began
LiveHistory(p) == chan[loc[p].chn]

\* channel.history(oldest_first=True) as the loop receives it: the messages
\* the platform returned when the iteration began
FetchedHistory(p) == loc[p].iter

RepublishStart(p, c) ==
    /\ pc[p] = "idle"
    /\ pc' = [pc EXCEPT ![p] = "rep_hist"]
    /\ loc' = [loc EXCEPT ![p] = [InitLoc EXCEPT !.cmd = "republish", !.chn = c]]
    /\ log' = Append(log, Respond(p, "Starting the process"))
    /\ pre' = chan
    /\ UNCHANGED <<chan, nextId, disk, catalog>>

\* async for message in ctx.channel.history(oldest_first=True): first fetch
RepublishHistory(p) ==
    /\ pc[p] = "rep_hist"
    /\ loc' = [loc EXCEPT ![p].iter = chan[loc[p].chn], ![p].i = 0]
    /\ pc' = [pc EXCEPT ![p] = "rep_next"]
    /\ UNCHANGED <<chan, nextId, disk, log, pre, catalog>>

\* The text republish sends for a message that has text.
RepublishedContent(m) ==
    IF m.author = Bot THEN m.content ELSE emojify(m.content)

\* (variant for C16) the turn begins with message.delete(), before anything
\* is sent for the message
RepublishNextDeleteFirst(p) ==
    /\ pc[p] = "rep_next"
    /\ LET c == loc[p].chn
           h == FetchedHistory(p)
       IN IF loc[p].i >= Len(h)
          THEN /\ pc' = [pc EXCEPT ![p] = "done"]
               /\ UNCHANGED <<chan, log, loc>>
          ELSE LET message == h[loc[p].i + 1] IN
               /\ loc' = [loc EXCEPT ![p].crt = message, ![p].ret = "rep_delete"]
               /\ chan' = [chan EXCEPT ![c] = DeleteMsg(@, message.id)]
               /\ log' = Append(log, Call(p, "delete", message.id))
               /\ pc' = [pc EXCEPT ![p] = "rep_delete"]
    /\ UNCHANGED <<nextId, disk, pre, catalog>>

\* One turn of the loop up to the await before message.delete().
RepublishNext(p) ==
    /\ pc[p] = "rep_next"
    /\ LET c == loc[p].chn
           h == FetchedHistory(p)
       IN IF loc[p].i >= Len(h)
          THEN \* the iteration is exhausted
               /\ pc' = [pc EXCEPT ![p] = "done"]
               /\ UNCHANGED <<chan, nextId, log, loc>>
          ELSE LET message == h[loc[p].i + 1] IN
               /\ loc' = [loc EXCEPT ![p].crt = message, ![p].ret = "rep_delete"]
               /\ IF message.content # Empty
                  THEN /\ Send(c, RepublishedContent(message),
                               message.attachments, message.embeds)
                       /\ log' = Append(log, Call(p, "send", nextId))
                       /\ pc' = [pc EXCEPT ![p] = "rep_delete"]
                  ELSE IF message.embeds # <<>> /\ message.embeds[1].title = TocTitle
                  THEN \* self.bot.get_command("summary").callback(self, ctx)
                       /\ log' = Append(log, Respond(p, "Starting the process..."))
                       /\ pc' = [pc EXCEPT ![p] = "sum_scan"]
                       /\ UNCHANGED <<chan, nextId>>
                  ELSE /\ Send(c, Blank, <<>>, <<>>)
                       /\ log' = Append(log, Call(p, "send", nextId))
                       /\ pc' = [pc EXCEPT ![p] = "rep_delete"]
    /\ UNCHANGED <<disk, pre, catalog>>

\* await message.delete()
RepublishDelete(p) ==
    /\ pc[p] = "rep_delete"
    /\ LET c == loc[p].chn
           id == loc[p].crt.id
       IN IF HasMsg(chan[c], id)
          THEN /\ chan' = [chan EXCEPT ![c] = DeleteMsg(@, id)]
               /\ log' = Append(log, Call(p, "delete", id))
               /\ loc' = [loc EXCEPT ![p].i = @ + 1]
               /\ pc' = [pc EXCEPT ![p] = "rep_next"]
          ELSE \* discord.NotFound
               /\ pc' = [pc EXCEPT ![p] = "failed"]
               /\ UNCHANGED <<chan, log, loc>>
    /\ UNCHANGED <<nextId, disk, pre, catalog>>

Republish(p) ==
    \/ \E c \in Chans : RepublishStart(p, c)
    \/ RepublishHistory(p)
    \/ RepublishNext(p)
    \/ RepublishDelete(p)

(***************************************************************************)
(* save_messages                                                           *)
(***************************************************************************)
\* msgs = [{"chn_name": chn_name, "chn_id": chn_id}]
Header(c) == [chn_name |-> c, chn_id |-> c]

\* for embed in msg.embeds: embeds.append(embed.description)
EmbedDescriptions(embeds) == [j \in 1..Len(embeds) |-> embeds[j].description]

\* The number in the name of the file the j-th attachment (from 0) of a
\* message is written to: img_id is set to 0 at the top of every turn of the
\* attachment loop.
ImgId(j) == 0

\* The attachment loop of save_messages on one message: the files written
\* and the image references collected.  A path is modelled by its number.
RECURSIVE SaveAttachments(_, _, _, _)
SaveAttachments(png, attachments, j, images) ==
    IF j >= Len(attachments) THEN [png |-> png, images |-> images]
    ELSE LET path == ImgId(j)
             written == [q \in DOMAIN png \cup {path} |->
                            IF q = path THEN attachments[j + 1] ELSE png[q]]
         IN  SaveAttachments(written, attachments, j + 1, Append(images, path))

\* (variant for C6) the entry is put right after the header
BundleInsertFirst(msgs, entry) == <<Head(msgs), entry>> \o Tail(msgs)

\* msgs.append({...})
BundleAppend(msgs, entry) == Append(msgs, entry)

SaveStart(p, c) ==
    /\ pc[p] = "idle"
    /\ pc' = [pc EXCEPT ![p] = "save_hist"]
    /\ loc' = [loc EXCEPT ![p] = [InitLoc EXCEPT !.cmd = "save_messages",
                                                 !.chn = c,
                                                 !.msgs = <<Header(c)>>]]
    /\ log' = Append(log, Respond(p, "Saving"))
    /\ pre' = chan
    /\ UNCHANGED <<chan, nextId, disk, catalog>>

\* async for msg in ctx.channel.history(oldest_first=True): first fetch
SaveHistory(p) ==
    /\ pc[p] = "save_hist"
    /\ loc' = [loc EXCEPT ![p].iter = chan[loc[p].chn], ![p].i = 0]
    /\ pc' = [pc EXCEPT ![p] = "save_next"]
    /\ UNCHANGED <<chan, nextId, disk, log, pre, catalog>>

\* One turn of the loop; when the history is exhausted, json.dump and the
\* final ctx.respond("Done").
SaveNext(p) ==
    /\ pc[p] = "save_next"
    /\ IF loc[p].i >= Len(loc[p].iter)
       THEN /\ disk' = [disk EXCEPT !.json = loc[p].msgs]
            /\ log' = Append(log, Respond(p, "Done"))
            /\ pc' = [pc EXCEPT ![p] = "done"]
            /\ loc' = loc
       ELSE LET msg == loc[p].iter[loc[p].i + 1]
                out == SaveAttachments(disk.png, msg.attachments, 0, <<>>)
                entry == [content |-> deemojify(msg.content),
                          images |-> out.images,
                          embeds |-> EmbedDescriptions(msg.embeds)]
            IN  /\ disk' = [disk EXCEPT !.png = out.png]
                /\ loc' = [loc EXCEPT ![p].msgs = BundleAppend(@, entry),
                                      ![p].i = @ + 1]
                /\ UNCHANGED <<pc, log>>
    /\ UNCHANGED <<chan, nextId, pre, catalog>>

SaveMessages(p) ==
    \/ \E c \in Chans : SaveStart(p, c)
    \/ SaveHistory(p)
    \/ SaveNext(p)

(***************************************************************************)
(* publish                                                                 *)
(***************************************************************************)
\* A behaviour follows one command, and a publish may follow a save.
MayPublish(p) ==
    \/ pc[p] = "idle"
    \/ pc[p] = "done" /\ loc[p].cmd = "save_messages"

\* for embed in msg["embeds"]: embeds.append(discord.Embed(description=embed))
DescriptionEmbeds(ds) == [j \in 1..Len(ds) |-> Embed(NoTitle, ds[j])]

\* (variant for C11) the header is sent too, as a message of its own
AllOfBundle(messages) ==
    <<[content |-> <<"header">>, images |-> <<>>, embeds |-> <<>>]>>
        \o Tail(messages)

\* messages[1:]
AfterHeader(messages) == Tail(messages)

PublishStart(p, c) ==
    /\ MayPublish(p)
    /\ pre' = chan
    /\ IF ~BundleExists
       THEN
            /\ log' = Append(log, Respond(p, "Bad filename"))
            /\ loc' = [loc EXCEPT ![p] = [InitLoc EXCEPT !.cmd = "publish",
                                                         !.chn = c]]
            /\ pc' = [pc EXCEPT ![p] = "done"]
       ELSE /\ log' = Append(log, Respond(p, "Starting"))
            /\ loc' = [loc EXCEPT ![p] = [InitLoc EXCEPT !.cmd = "publish",
                                            !.chn = c,
                                            !.msgs = AfterHeader(disk.json)]]
            /\ pc' = [pc EXCEPT ![p] = "pub_next"]
    /\ UNCHANGED <<chan, nextId, disk, catalog>>

\* One turn of the loop: the files are opened from their stored paths, the
\* embeds rebuilt, the message sent.
PublishNext(p) ==
    /\ pc[p] = "pub_next"
    /\ IF loc[p].i >= Len(loc[p].msgs)
       THEN /\ pc' = [pc EXCEPT ![p] = "done"]
            /\ UNCHANGED <<chan, nextId, log, loc>>
       ELSE LET msg == loc[p].msgs[loc[p].i + 1]
                content == emojify(msg.content)
                embeds == DescriptionEmbeds(msg.embeds)
            IN  IF \/ \E j \in 1..Len(msg.images) : msg.images[j] \notin DOMAIN disk.png
                   \/ (content = Empty /\ msg.images = <<>> /\ embeds = <<>>)
                THEN \* FileNotFoundError / the platform refuses an empty message
                     /\ pc' = [pc EXCEPT ![p] = "failed"]
                     /\ UNCHANGED <<chan, nextId, log, loc>>
                ELSE /\ Send(loc[p].chn, content,
                             [j \in 1..Len(msg.images) |-> disk.png[msg.images[j]]],
                             embeds)
                     /\ log' = Append(log, Call(p, "send", nextId))
                     /\ loc' = [loc EXCEPT ![p].i = @ + 1]
                     /\ pc' = pc
    /\ UNCHANGED <<disk, pre, catalog>>

Publish(p) ==
    \/ \E c \in Chans : PublishStart(p, c)
    \/ PublishNext(p)

(***************************************************************************)
(* fix_item_links: the two regular expressions, on tokens.                 *)
(*                                                                         *)
(* Tokens: "[" "]" "(" ")" are themselves; " " is a blank and "nl" a line  *)
(* break (both \s; "." matches all but "nl"); "U" is                       *)
(* "https://wowhead.com/" and "W" is "https://www.wowhead.com/";           *)
(* "item=1", "item=2" are item=<digits>; every other token is a run of     *)
(* ordinary characters.                                                    *)
(***************************************************************************)
\* https://(?:www\.)?wowhead\.com/
IsPrefix(t) == t \in {"U", "W"}
\* [^\s\)]
IsUrlChar(t) == t \notin {" ", "nl", ")"}

\* The end of the longest run of [^\s\)] that begins after position q.
RECURSIVE RunEnd(_, _)
RunEnd(s, q) ==
    IF q < Len(s) /\ IsUrlChar(s[q + 1]) THEN RunEnd(s, q + 1) ELSE q

\* The last item=<digits> in s[lo..hi] (0: none): the first [^\s\)]* of the
\* pattern is greedy.
LastItem(s, lo, hi) ==
    LET at == {k \in lo..hi : s[k] \in ItemTokens}
    IN  IF at = {} THEN 0 ELSE CHOOSE k \in at : \A j \in at : j <= k

\* unfixed_link_pattern matches at position p
UnfixedAt(s, p) ==
    /\ IsPrefix(s[p])
    /\ LastItem(s, p + 1, RunEnd(s, p)) # 0

\* The first ")" at or after position k (0: none).
CloseParen(s, k) ==
    LET at == {e \in k..Len(s) : s[e] = ")"}
    IN  IF at = {} THEN 0 ELSE CHOOSE e \in at : \A j \in at : e <= j

\* \]\(https://(?:www\.)?wowhead\.com/[^\)]*item=\d+[^\)]*\) matches at q
FixedTail(s, q) ==
    /\ q + 2 <= Len(s)
    /\ s[q] = "]"
    /\ s[q + 1] = "("
    /\ IsPrefix(s[q + 2])
    /\ CloseParen(s, q + 3) # 0
    /\ \E k \in (q + 3)..(CloseParen(s, q + 3) - 1) : s[k] \in ItemTokens

\* \[.*?\] followed by the tail: the lazy .*? stops at the first place the
\* tail matches, and cannot cross a line break.  The position of the
\* closing ")" of the match that begins at the "[" before q (0: no match).
RECURSIVE LazyClose(_, _)
LazyClose(s, q) ==
    IF q > Len(s) THEN 0
    ELSE IF FixedTail(s, q) THEN CloseParen(s, q + 3)
    ELSE IF s[q] = "nl" THEN 0
    ELSE LazyClose(s, q + 1)

\* The end of the match of fixed_link_re that begins at p (0: no match).
FixedEndAt(s, p) == IF s[p] = "[" THEN LazyClose(s, p + 1) ELSE 0

\* fixed_link_re.finditer(s): the spans <<start, end>>, left to right
RECURSIVE FixedSpans(_, _)
FixedSpans(s, pos) ==
    IF pos > Len(s) THEN <<>>
    ELSE IF FixedEndAt(s, pos) # 0
         THEN <<<<pos, FixedEndAt(s, pos)>>>> \o FixedSpans(s, FixedEndAt(s, pos) + 1)
         ELSE FixedSpans(s, pos + 1)

\* fixed_link_re.sub(lambda m: ' ' * len(m.group()), content)
Blanked(s) ==
    LET spans == FixedSpans(s, 1)
    IN  [k \in 1..Len(s) |->
            IF \E j \in 1..Len(spans) : spans[j][1] <= k /\ k <= spans[j][2]
            THEN " " ELSE s[k]]

\* unfixed_link_re.findall(s): the captured ids, left to right
RECURSIVE FindAll(_, _)
FindAll(s, pos) ==
    IF pos > Len(s) THEN <<>>
    ELSE IF UnfixedAt(s, pos)
         THEN <<ItemIdOf(s[LastItem(s, pos + 1, RunEnd(s, pos))])>>
              \o FindAll(s, RunEnd(s, pos) + 1)
         ELSE FindAll(s, pos + 1)

\* list(dict.fromkeys(ids)): first occurrences, in order
RECURSIVE Unique(_)
Unique(ids) ==
    IF ids = <<>> THEN <<>>
    ELSE LET rest == Unique(SubSeq(ids, 1, Len(ids) - 1))
             last == ids[Len(ids)]
         IN  IF \E j \in 1..Len(rest) : rest[j] = last THEN rest
             ELSE Append(rest, last)

\* item_ids
ItemIdsOf(content) == Unique(FindAll(Blanked(content), 1))

\* (variant for C7) the name is put before the URL, which stays bare
FixedLinkUnwrapped(name, id) == <<name, " ", "W", "ru/", ItemTok(id)>>

\* f'[{name}](https://www.wowhead.com/ru/item={item_id})'
FixedLink(name, id) == <<"[", name, "]", "(", "W", "ru/", ItemTok(id), ")">>

\* replace_match: the replacement of the match that begins at p
ReplaceMatch(s, p, id_to_name) ==
    LET id == ItemIdOf(s[LastItem(s, p + 1, RunEnd(s, p))])
    IN  IF id \in DOMAIN id_to_name
        THEN FixedLink(id_to_name[id], id)
        ELSE SubSeq(s, p, RunEnd(s, p))

\* unfixed_link_re.sub(replace_match, chunk)
RECURSIVE SubUnfixed(_, _, _)
SubUnfixed(s, pos, id_to_name) ==
    IF pos > Len(s) THEN <<>>
    ELSE IF UnfixedAt(s, pos)
         THEN ReplaceMatch(s, pos, id_to_name)
              \o SubUnfixed(s, RunEnd(s, pos) + 1, id_to_name)
         ELSE <<s[pos]>> \o SubUnfixed(s, pos + 1, id_to_name)

\* The loop of replace_unfixed over the spans that are left to copy.
RECURSIVE ReplaceWalk(_, _, _, _)
ReplaceWalk(s, pos, spans, id_to_name) ==
    IF spans = <<>>
    THEN SubUnfixed(SubSeq(s, pos, Len(s)), 1, id_to_name)
    ELSE SubUnfixed(SubSeq(s, pos, spans[1][1] - 1), 1, id_to_name)
         \o SubSeq(s, spans[1][1], spans[1][2])
         \o ReplaceWalk(s, spans[1][2] + 1, Tail(spans), id_to_name)

\* replace_unfixed(content)
ReplaceUnfixed(content, id_to_name) ==
    ReplaceWalk(content, 1, FixedSpans(content, 1), id_to_name)

(***************************************************************************)
(* fix_item_links(message), step by step.  The handler that calls it has   *)
(* put the message in loc[p].answ and the place to return to in loc[p].ret.*)
(***************************************************************************)
\* Lines 53-62: find the ids of the bare links; none: return.
FixScan(p) ==
    /\ pc[p] = "fix_scan"
    /\ LET ids == ItemIdsOf(loc[p].answ.content) IN
          /\ loc' = [loc EXCEPT ![p].item_ids = ids, ![p].id_to_name = <<>>,
                                ![p].pending = {}]
          /\ pc' = [pc EXCEPT ![p] = IF ids = <<>> THEN loc[p].ret ELSE "fix_token"]
    /\ UNCHANGED <<chan, nextId, disk, log, pre, catalog>>

\* (variant for C9) a failed token request is swallowed and the lookups go
\* ahead without a token
FixTokenSwallowed(p) ==
    /\ pc[p] = "fix_token"
    /\ \E ok \in BOOLEAN :
          /\ loc' = [loc EXCEPT ![p].token = IF ok THEN "ok" ELSE "failed",
                                ![p].pending = {loc[p].item_ids[j] :
                                                  j \in 1..Len(loc[p].item_ids)},
                                ![p].lookups = @ \o loc[p].item_ids]
          /\ pc' = [pc EXCEPT ![p] = "fix_lookup"]
    /\ UNCHANGED <<chan, nextId, disk, log, pre, catalog>>

\* token = _get_blizzard_token(): raise_for_status() raises on a non-2xx
\* answer and the exception leaves fix_item_links and its caller; else every
\* lookup is submitted to the pool.
FixToken(p) ==
    /\ pc[p] = "fix_token"
    /\ \/ /\ loc' = [loc EXCEPT ![p].token = "failed"]
          /\ pc' = [pc EXCEPT ![p] = "failed"]
       \/ /\ loc' = [loc EXCEPT ![p].token = "ok",
                                ![p].pending = {loc[p].item_ids[j] :
                                                  j \in 1..Len(loc[p].item_ids)},
                                ![p].lookups = @ \o loc[p].item_ids]
          /\ pc' = [pc EXCEPT ![p] = "fix_lookup"]
    /\ UNCHANGED <<chan, nextId, disk, log, pre, catalog>>

\* (variant for C19) the failure of one lookup is not caught: it leaves
\* fix_item_links and ends the batch
FixLookupAborting(p, id) ==
    /\ pc[p] = "fix_lookup"
    /\ id \in loc[p].pending
    /\ loc' = [loc EXCEPT
                 ![p].pending = @ \ {id},
                 ![p].id_to_name =
                     IF catalog[id] # NoName
                     THEN [k \in DOMAIN @ \cup {id} |->
                              IF k = id THEN catalog[id] ELSE @[k]]
                     ELSE @]
    /\ pc' = [pc EXCEPT ![p] = IF catalog[id] = NoName THEN "failed"
                                ELSE IF loc[p].pending = {id} THEN "fix_rewrite"
                                ELSE "fix_lookup"]
    /\ UNCHANGED <<chan, nextId, disk, log, pre, catalog>>

\* for future in as_completed(future_to_id): the lookups complete in any
\* order; a lookup that failed returned None.
FixLookup(p, id) ==
    /\ pc[p] = "fix_lookup"
    /\ id \in loc[p].pending
    /\ loc' = [loc EXCEPT
                 ![p].pending = @ \ {id},
                 ![p].id_to_name =
                     IF catalog[id] # NoName
                     THEN [k \in DOMAIN @ \cup {id} |->
                              IF k = id THEN catalog[id] ELSE @[k]]
                     ELSE @]
    /\ pc' = [pc EXCEPT ![p] = IF loc[p].pending = {id} THEN "fix_rewrite"
                                ELSE "fix_lookup"]
    /\ UNCHANGED <<chan, nextId, disk, log, pre, catalog>>

\* message.content = replace_unfixed(message.content)
FixRewrite(p) ==
    /\ pc[p] = "fix_rewrite"
    /\ loc' = [loc EXCEPT ![p].answ.content =
                              ReplaceUnfixed(@, loc[p].id_to_name)]
    /\ pc' = [pc EXCEPT ![p] = loc[p].ret]
    /\ UNCHANGED <<chan, nextId, disk, log, pre, catalog>>

FixItemLinks(p) ==
    \/ FixScan(p)
    \/ FixToken(p)
    \/ \E id \in ItemIds : FixLookup(p, id)
    \/ FixRewrite(p)

(***************************************************************************)
(* Callers of fix_item_links.                                              *)
(***************************************************************************)
\* The pieces texts are made of: plain pieces, bare catalog links, display
\* links (the second not in the canonical form the bot writes).
Segments ==
    { <<"x">>, <<" ">>, <<"nl">>, <<"[">>, <<"]">>, <<"(">>, <<")">>,
      <<"U", "item=1">>, <<"W", "x", "item=2", "x">>,
      FixedLink(NameTok(1), 1), <<"[", "x", "]", "(", "U", "item=2", ")">> }

\* The pieces replies to edit_message are made of.
ReplySegments ==
    { <<"x">>, <<" ">>, <<":e:">>, <<"EMBED">>, <<"W", "item=1">>,
      FixedLink(NameTok(2), 2) }

\* All texts of at most n pieces.
RECURSIVE TextsOf(_, _)
TextsOf(segs, n) ==
    IF n = 0 THEN {<<>>}
    ELSE LET shorter == TextsOf(segs, n - 1)
         IN  shorter \cup {t \o sg : t \in shorter, sg \in segs}

Texts == TextsOf(Segments, MaxSegs)
Replies == (TextsOf(ReplySegments, MaxReplySegs) \ {<<>>})
              \cup {<<"cancel">>, <<"Cancel">>}

\* The catalogs: every item has its name, or its lookup fails.
Catalogs == [ItemIds -> {"name", "fails"}]
CatalogOf(f) == [id \in ItemIds |-> IF f[id] = "name" THEN NameTok(id) ELSE NoName]

\* fix_item_links(message) called on a message with the given text.
FixCall(p) ==
    /\ pc[p] = "idle"
    /\ \E text \in Texts :
          loc' = [loc EXCEPT ![p] = [InitLoc EXCEPT
                    !.cmd = "fix_item_links",
                    !.answ = [content |-> text, attachments |-> <<>>],
                    !.orig = text, !.calls = 1, !.ret = "fix_done"]]
    /\ pc' = [pc EXCEPT ![p] = "fix_scan"]
    /\ UNCHANGED <<chan, nextId, disk, log, pre, catalog>>

\* fix_item_links(message) called once more on the same message.
FixAgain(p) ==
    /\ pc[p] = "fix_done"
    /\ loc[p].calls = 1
    /\ loc' = [loc EXCEPT ![p].calls = 2, ![p].out1 = loc[p].answ.content]
    /\ pc' = [pc EXCEPT ![p] = "fix_scan"]
    /\ UNCHANGED <<chan, nextId, disk, log, pre, catalog>>

(***************************************************************************)
(* edit_message                                                            *)
(***************************************************************************)
\* answ.content.lower()
Lower(c) == [k \in 1..Len(c) |-> IF c[k] = "Cancel" THEN "cancel" ELSE c[k]]

\* str.strip()
RECURSIVE LStrip(_)
LStrip(c) ==
    IF c # <<>> /\ Head(c) \in {" ", "nl"} THEN LStrip(Tail(c)) ELSE c
RECURSIVE RStrip(_)
RStrip(c) ==
    IF c # <<>> /\ c[Len(c)] \in {" ", "nl"}
    THEN RStrip(SubSeq(c, 1, Len(c) - 1)) ELSE c
Strip(c) == RStrip(LStrip(c))

\* The places of "EMBED" in the text.
EmbedMarks(c) == {k \in 1..Len(c) : c[k] = "EMBED"}

EditStart(p, c, m) ==
    /\ pc[p] = "idle"
    /\ m \in Ids(chan[c])
    /\ loc' = [loc EXCEPT ![p] = [InitLoc EXCEPT !.cmd = "edit_message",
                                                 !.chn = c, !.target = m]]
    /\ pre' = chan
    /\ IF Fetch(chan[c], m).author # Bot
       THEN /\ log' = Append(log, Respond(p, "Cannot edit non-bot message"))
            /\ pc' = [pc EXCEPT ![p] = "done"]
       ELSE /\ log' = Append(log, Respond(p, "Sent you a dm"))
            /\ pc' = [pc EXCEPT ![p] = "em_dm"]
    /\ UNCHANGED <<chan, nextId, disk, catalog>>

\* await ctx.user.send(the current text, files=...)
EditDm(p) ==
    /\ pc[p] = "em_dm"
    /\ log' = Append(log, <<p, "dm", "original">>)
    /\ pc' = [pc EXCEPT ![p] = "em_wait"]
    /\ UNCHANGED <<chan, nextId, disk, loc, pre, catalog>>

\* (variant for C20) the reply is not compared with "cancel": every reply
\* is enriched and written
EditReplyNoCancel(p, text, attachments) ==
    /\ pc[p] = "em_wait"
    /\ text # <<>>
    /\ loc' = [loc EXCEPT ![p].answ = [content |-> text,
                                       attachments |-> attachments],
                          ![p].orig = text, ![p].calls = 1,
                          ![p].ret = "em_edit"]
    /\ pc' = [pc EXCEPT ![p] = "fix_scan"]
    /\ UNCHANGED <<chan, nextId, disk, log, pre, catalog>>

\* answ = await self.bot.wait_for("message", check=..., timeout=240.0):
\* a non-empty message of the invoking user arrives in the DM channel.
EditReply(p, text, attachments) ==
    /\ pc[p] = "em_wait"
    /\ text # <<>>
    /\ IF Lower(text) = <<"cancel">>
       THEN /\ log' = Append(log, <<p, "dm", "Cancelled">>)
            /\ loc' = [loc EXCEPT ![p].answ = [content |-> text,
                                               attachments |-> attachments],
                                  ![p].orig = text]
            /\ pc' = [pc EXCEPT ![p] = "done"]
       ELSE \* self.fix_item_links(answ)
            /\ loc' = [loc EXCEPT ![p].answ = [content |-> text,
                                               attachments |-> attachments],
                                  ![p].orig = text, ![p].calls = 1,
                                  ![p].ret = "em_edit"]
            /\ pc' = [pc EXCEPT ![p] = "fix_scan"]
            /\ log' = log
    /\ UNCHANGED <<chan, nextId, disk, pre, catalog>>

\* asyncio.TimeoutError leaves the handler
EditTimeout(p) ==
    /\ pc[p] = "em_wait"
    /\ pc' = [pc EXCEPT ![p] = "failed"]
    /\ UNCHANGED <<chan, nextId, disk, loc, log, pre, catalog>>

\* Lines 216-223: the edit of the target and the final DM.
EditWrite(p) ==
    /\ pc[p] = "em_edit"
    /\ LET c == loc[p].chn
           t == loc[p].target
           answ == loc[p].answ
           marks == EmbedMarks(answ.content)
       IN IF Cardinality(marks) > 1 \/ ~HasMsg(chan[c], t)
          THEN \* ValueError (too many values to unpack) / discord.NotFound
               /\ pc' = [pc EXCEPT ![p] = "failed"]
               /\ UNCHANGED <<chan, log>>
          ELSE /\ IF marks # {}
                  THEN LET k == CHOOSE j \in marks : TRUE
                           messageContent == Strip(SubSeq(answ.content, 1, k - 1))
                           embedContent ==
                               Strip(SubSeq(answ.content, k + 1, Len(answ.content)))
                       IN  chan' = [chan EXCEPT ![c] =
                                      EditMsg(@, t, emojify(messageContent),
                                              Fetch(chan[c], t).attachments,
                                              <<Embed(NoTitle, embedContent)>>)]
                  ELSE chan' = [chan EXCEPT ![c] =
                                  EditMsg(@, t, emojify(answ.content),
                                          answ.attachments,
                                          Fetch(chan[c], t).embeds)]
               /\ log' = Append(Append(log, Call(p, "edit", t)),
                                <<p, "dm", "Successfully changed">>)
               /\ pc' = [pc EXCEPT ![p] = "done"]
    /\ UNCHANGED <<nextId, disk, loc, pre, catalog>>

EditMessage(p) ==
    \/ \E c \in Chans : \E m \in Ids(chan[c]) : EditStart(p, c, m)
    \/ EditDm(p)
    \/ \E text \in Replies : \E att \in {<<>>, <<91>>} : EditReply(p, text, att)
    \/ EditTimeout(p)
    \/ EditWrite(p)

(***************************************************************************)
(* A call on the platform may fail (network, rate limit, permission): the  *)
(* exception leaves the handler, and nothing is rolled back.               *)
(***************************************************************************)
Awaiting == {"ins_send", "ins_walk", "ins_fetch", "ins_edit", "ins_final",
             "sum_scan", "sum_send", "rep_hist", "rep_next", "rep_delete",
             "save_hist", "save_next", "pub_next", "em_dm", "em_edit",
             "trg_fetch"}

Crash(p) ==
    /\ pc[p] \in Awaiting
    /\ pc' = [pc EXCEPT ![p] = "failed"]
    /\ UNCHANGED <<chan, nextId, disk, loc, log, pre, catalog>>

Next ==
    \/ Insert("A")
    \/ Summary("A")
    \/ Republish("A")
    \/ SaveMessages("A")
    \/ Publish("A")
    \/ Crash("A")

Spec == Init /\ [][Next]_vars

(***************************************************************************)
(* fix_item_links alone: a text and a catalog are drawn, the function is   *)
(* applied to the message, and applied again to what it left.              *)
(***************************************************************************)
InitFix ==
    /\ chan = [c \in Chans |-> <<>>]
    /\ nextId = 1
    /\ disk = InitDisk
    /\ pc = [p \in Procs |-> "idle"]
    /\ loc = [p \in Procs |-> InitLoc]
    /\ log = <<>>
    /\ pre = chan
    /\ \E f \in Catalogs : catalog = CatalogOf(f)

NextFix ==
    \/ FixCall("A")
    \/ FixItemLinks("A")
    \/ FixAgain("A")

SpecFix == InitFix /\ [][NextFix]_vars

(***************************************************************************)
(* edit_message on a channel of one message.                               *)
(***************************************************************************)
InitEdit ==
    /\ \E k \in {"botAtt", "botEmbed", "userTitle"} :
          chan = [c \in Chans |-> IF c = 1 THEN <<MkMsg(1, k)>> ELSE <<>>]
    /\ nextId = 2
    /\ disk = InitDisk
    /\ pc = [p \in Procs |-> "idle"]
    /\ loc = [p \in Procs |-> InitLoc]
    /\ log = <<>>
    /\ pre = chan
    /\ \E f \in Catalogs : catalog = CatalogOf(f)

NextEdit ==
    \/ EditMessage("A")
    \/ FixItemLinks("A")
    \/ Crash("A")

SpecEdit == InitEdit /\ [][NextEdit]_vars

(***************************************************************************)
(* Two invocations of insert_message on channel 1, their steps interleaved *)
(* in any way (one following the other included).                          *)
(***************************************************************************)
\* The shapes the messages of the channel are drawn from here: their
\* payloads differ from one another and from what insert_message writes.
PairKinds == {"botTitle", "botAtt", "userShort"}

InitPair ==
    /\ \E n \in 1..MaxPairMsgs : \E ks \in [1..n -> PairKinds] :
          /\ chan = [c \in Chans |->
                        IF c = 1 THEN [i \in 1..n |-> MkMsg(i, ks[i])] ELSE <<>>]
          /\ nextId = n + 1
    /\ disk = InitDisk
    /\ pc = [p \in Procs |-> "idle"]
    /\ loc = [p \in Procs |-> InitLoc]
    /\ log = <<>>
    /\ pre = chan
    /\ catalog = [id \in ItemIds |-> NoName]

NextPair ==
    \/ Insert("A")
    \/ Insert("B")

SpecPair == InitPair /\ [][NextPair]_vars

(***************************************************************************)
(* message_triggers.py: the trigger table and its three handlers.          *)
(***************************************************************************)
\* A message URL https://discord.com/channels/<guild>/<channel>/<message>
\* is modelled by its channel and message numbers.
Url(c, m) == <<c, m>>
\* A text that url_pattern does not match.
BadUrl == <<0>>
\* re.match(url_pattern, message_url)
UrlMatches(url) == Len(url) = 2
\* guild_id, target_channel_id, message_id = map(int, match.groups())
UrlChannel(url) == url[1]
UrlMessage(url) == url[2]
\* The URL as it stands in a reply.
UrlTok(url) ==
    IF url = Url(1, 1) THEN "url/1/1" ELSE IF url = Url(1, 2) THEN "url/1/2"
    ELSE "url"
\* A channel the bot has no access to.
PrivateChan == 3

\* target_channel.fetch_message(message_id), after get_channel /
\* fetch_channel: what the platform answers.
FetchOutcome(url) ==
    IF UrlChannel(url) = PrivateChan THEN "Forbidden"
    ELSE IF UrlChannel(url) \notin Chans THEN "NotFound"
    ELSE IF HasMsg(chan[UrlChannel(url)], UrlMessage(url)) THEN "ok"
    ELSE "NotFound"

\* The text of a patterns argument is a sequence of tokens: "," is the
\* comma, every other token a run of characters without a comma.
\* The part of the text before the first comma, as one token ("": empty).
PartOf(t) == IF t = <<>> THEN "" ELSE t[1]
\* patterns.split(",")
RECURSIVE Split(_)
Split(t) ==
    IF \E k \in 1..Len(t) : t[k] = ","
    THEN LET k == CHOOSE j \in 1..Len(t) :
                     t[j] = "," /\ \A i \in 1..(j - 1) : t[i] # ","
         IN  <<PartOf(SubSeq(t, 1, k - 1))>> \o Split(SubSeq(t, k + 1, Len(t)))
    ELSE <<PartOf(t)>>
\* p.strip()
StripTok(t) ==
    IF t = " " THEN "" ELSE IF t = " a " THEN "a" ELSE t
\* [p.strip() for p in patterns.split(",") if p.strip()]
PatternList(t) ==
    SelectSeq([k \in 1..Len(Split(t)) |-> StripTok(Split(t)[k])],
              LAMBDA x : x # "")
\* re.compile(pattern) does not raise re.error
Compiles(pattern) == pattern # "("
\* ",".join(pattern_list)
RECURSIVE Join(_)
Join(list) ==
    IF Len(list) <= 1 THEN list
    ELSE <<Head(list), ",">> \o Join(Tail(list))

\* One row of message_triggers.
Row(id, channel_id, message_id, message_url, patterns, response_text) ==
    [id |-> id, channel_id |-> channel_id, guild_id |-> 1,
     message_id |-> message_id, message_url |-> message_url,
     patterns |-> patterns, response_text |-> response_text,
     created_by |-> User]

\* DELETE FROM message_triggers WHERE channel_id = ? AND message_id = ?
\* (a NULL message_id equals nothing)
DeleteRows(rows, c, mid) ==
    SelectSeq(rows, LAMBDA r : ~(/\ r.channel_id = c
                                 /\ r.message_id # NoId
                                 /\ r.message_id = mid))

\* UNIQUE (channel_id, message_id): NULLs are distinct from one another
UniqueHolds(rows, c, mid) ==
    mid = NoId \/ \A k \in 1..Len(rows) :
                     ~(rows[k].channel_id = c /\ rows[k].message_id = mid)

\* INSERT INTO message_triggers (...) VALUES (...): the table after it
InsertRow(db, c, mid, url, patterns_str, response_text) ==
    [rows |-> Append(db.rows, Row(db.seq + 1, c, mid, url, patterns_str,
                                  response_text)),
     seq |-> db.seq + 1]

\* (variant for C23) the row is inserted without the DELETE before it
StoreTriggerInsertOnly(db, c, mid, url, patterns_str, response_text) ==
    IF UniqueHolds(db.rows, c, mid)
    THEN [ok |-> TRUE,
          db |-> InsertRow(db, c, mid, url, patterns_str, response_text),
          sql |-> <<"INSERT", "COMMIT">>]
    ELSE [ok |-> FALSE, db |-> db, sql |-> <<"INSERT">>]

\* Lines 123-138: the DELETE when there is a message id, the INSERT, the
\* commit.  sqlite3.IntegrityError leaves the handler before the commit.
StoreTrigger(db, c, mid, url, patterns_str, response_text) ==
    LET deleted == IF mid # NoId
                   THEN [db EXCEPT !.rows = DeleteRows(@, c, mid)] ELSE db
        stmts == IF mid # NoId THEN <<"DELETE", "INSERT">> ELSE <<"INSERT">>
    IN  IF UniqueHolds(deleted.rows, c, mid)
        THEN [ok |-> TRUE,
              db |-> InsertRow(deleted, c, mid, url, patterns_str, response_text),
              sql |-> Append(stmts, "COMMIT")]
        ELSE [ok |-> FALSE, db |-> db, sql |-> stmts]

\* The statements a handler ran on the table, as calls in the log.
RECURSIVE SqlCalls(_, _)
SqlCalls(p, stmts) ==
    IF stmts = <<>> THEN <<>>
    ELSE <<Call(p, "sql", Head(stmts))>> \o SqlCalls(p, Tail(stmts))

\* A handler of this file is invoked when none is under way.
TrigIdle(p) == pc[p] = "idle"

\* The handler has returned or raised: the event loop may invoke the next.
\* The log holds the calls of one handler, from its invocation to its end.
TrigReturn(p) ==
    /\ pc[p] \in {"done", "failed"}
    /\ pc' = [pc EXCEPT ![p] = "idle"]
    /\ loc' = [loc EXCEPT ![p] = InitLoc]
    /\ log' = <<>>
    /\ pre' = chan
    /\ UNCHANGED <<chan, nextId, disk, catalog>>

\* set_trigger up to its first await (lines 83-100).
TrigSetStart(p, c, patterns, response_text, message_url) ==
    /\ TrigIdle(p)
    /\ disk.db.seq < MaxRows
    /\ pre' = chan
    /\ loc' = [loc EXCEPT ![p] = [InitLoc EXCEPT
                 !.cmd = "set_trigger", !.chn = c,
                 !.args = [patterns |-> patterns,
                           response_text |-> response_text,
                           message_url |-> message_url],
                 !.message_id = IF message_url # NoUrl /\ UrlMatches(message_url)
                                THEN UrlMessage(message_url) ELSE NoId,
                 !.db0 = disk.db]]
    /\ IF message_url = NoUrl
       THEN /\ pc' = [pc EXCEPT ![p] = "trg_store"]
            /\ log' = <<>>
       ELSE IF ~UrlMatches(message_url)
       THEN /\ pc' = [pc EXCEPT ![p] = "done"]
            /\ log' = <<Respond(p, "Invalid message URL format.")>>
       ELSE /\ pc' = [pc EXCEPT ![p] = "trg_fetch"]
            /\ log' = <<>>
    /\ UNCHANGED <<chan, nextId, disk, catalog>>

\* await target_channel.fetch_message(message_id) and its except clauses.
TrigSetFetch(p) ==
    /\ pc[p] = "trg_fetch"
    /\ LET outcome == FetchOutcome(loc[p].args.message_url)
       IN  IF outcome = "ok"
           THEN /\ pc' = [pc EXCEPT ![p] = "trg_store"]
                /\ log' = log
           ELSE IF outcome = "NotFound"
           THEN /\ pc' = [pc EXCEPT ![p] = "done"]
                /\ log' = Append(log, Respond(p, "Message not found."))
           ELSE /\ pc' = [pc EXCEPT ![p] = "done"]
                /\ log' = Append(log,
                              Respond(p, "I don't have access to that message."))
    /\ UNCHANGED <<chan, nextId, disk, loc, pre, catalog>>

\* Lines 108-143: the patterns are validated, the row is stored, the caller
\* is answered.
TrigSetStore(p) ==
    /\ pc[p] = "trg_store"
    /\ LET pattern_list == PatternList(loc[p].args.patterns)
           stored == StoreTrigger(disk.db, loc[p].chn, loc[p].message_id,
                                  loc[p].args.message_url, Join(pattern_list),
                                  loc[p].args.response_text)
       IN  IF pattern_list = <<>>
           THEN /\ log' = Append(log,
                              Respond(p, "Please provide at least one pattern."))
                /\ pc' = [pc EXCEPT ![p] = "done"]
                /\ disk' = disk
           ELSE IF \E k \in 1..Len(pattern_list) : ~Compiles(pattern_list[k])
           THEN /\ log' = Append(log, Respond(p, "Invalid regex pattern"))
                /\ pc' = [pc EXCEPT ![p] = "done"]
                /\ disk' = disk
           ELSE IF stored.ok
           THEN /\ disk' = [disk EXCEPT !.db = stored.db]
                /\ log' = Append(log \o SqlCalls(p, stored.sql),
                                 Respond(p, "Trigger set."))
                /\ pc' = [pc EXCEPT ![p] = "done"]
           ELSE /\ disk' = disk
                /\ log' = log \o SqlCalls(p, stored.sql)
                /\ pc' = [pc EXCEPT ![p] = "failed"]
    /\ UNCHANGED <<chan, nextId, loc, pre, catalog>>

\* The texts of the patterns argument, the response texts, the URLs the
\* commands are given.
PatternTexts ==
    { <<" ">>, <<"a">>, <<" a ", ",", "b">>, <<"a", ",", "(">> }
Responses == { <<"r1">>, <<"r2", "<>">> }
Urls == { NoUrl, BadUrl, Url(1, 1), Url(1, 2), Url(2, 1), Url(PrivateChan, 1) }

SetTrigger(p) ==
    \/ \E c \in Chans : \E patterns \in PatternTexts :
          \E response_text \in Responses : \E message_url \in Urls :
             TrigSetStart(p, c, patterns, response_text, message_url)
    \/ TrigSetFetch(p)
    \/ TrigSetStore(p)

\* delete_trigger (lines 147-177): it has one await, the answer.
TrigDelete(p, c, message_url) ==
    /\ TrigIdle(p)
    /\ message_url # NoUrl
    /\ pre' = chan
    /\ pc' = [pc EXCEPT ![p] = "done"]
    /\ loc' = [loc EXCEPT ![p] = [InitLoc EXCEPT
                 !.cmd = "delete_trigger", !.chn = c,
                 !.args = [NoArgs EXCEPT !.message_url = message_url],
                 !.message_id = IF UrlMatches(message_url)
                                THEN UrlMessage(message_url) ELSE NoId,
                 !.db0 = disk.db]]
    /\ IF ~UrlMatches(message_url)
       THEN /\ log' = <<Respond(p, "Invalid message URL format.")>>
            /\ disk' = disk
       ELSE LET kept == DeleteRows(disk.db.rows, c, UrlMessage(message_url))
            IN  /\ disk' = [disk EXCEPT !.db.rows = kept]
                /\ log' = SqlCalls(p, <<"DELETE", "COMMIT">>)
                          \o <<Respond(p, IF Len(kept) < Len(disk.db.rows)
                                          THEN "Trigger deleted."
                                          ELSE "No trigger found")>>
    /\ UNCHANGED <<chan, nextId, catalog>>

DeleteTrigger(p) ==
    \E c \in Chans : \E message_url \in Urls : TrigDelete(p, c, message_url)

\* re.IGNORECASE
LowerTok(t) == IF t = "A" THEN "a" ELSE IF t = "B" THEN "b" ELSE t
\* re.search(pattern, content, re.IGNORECASE): a match, none, or re.error
Search(pattern, content) ==
    IF ~Compiles(pattern) THEN "error"
    ELSE IF \E k \in 1..Len(content) : LowerTok(content[k]) = LowerTok(pattern)
    THEN "match" ELSE "none"
\* Some pattern of the row matches the content.
RowMatches(row, content) ==
    \E k \in 1..Len(PatternList(row.patterns)) :
        Search(PatternList(row.patterns)[k], content) = "match"
\* (variant for C24) the last row with a matching pattern is taken
LastMatch(rows, content) ==
    LET at == {k \in 1..Len(rows) : RowMatches(rows[k], content)}
    IN  IF at = {} THEN 0 ELSE CHOOSE k \in at : \A j \in at : j <= k
\* The loop of lines 237-256 returns at the first row with a matching
\* pattern (0: no row has one).
FirstMatch(rows, content) ==
    LET at == {k \in 1..Len(rows) : RowMatches(rows[k], content)}
    IN  IF at = {} THEN 0 ELSE CHOOSE k \in at : \A j \in at : k <= j
\* reply_content (lines 242-248)
ReplyContent(row) ==
    IF row.message_url = NoUrl THEN row.response_text
    ELSE IF \E k \in 1..Len(row.response_text) : row.response_text[k] = "<>"
    THEN [k \in 1..Len(row.response_text) |->
             IF row.response_text[k] = "<>" THEN UrlTok(row.message_url)
             ELSE row.response_text[k]]
    ELSE row.response_text \o <<" ", UrlTok(row.message_url)>>

\* SELECT ... WHERE channel_id = ? has no ORDER BY: the rows of the channel
\* come in an order the database chooses.
RowOrders(rows, c) ==
    LET mine == SelectSeq(rows, LAMBDA r : r.channel_id = c)
        n == Len(mine)
    IN  {[k \in 1..n |-> mine[f[k]]] :
            f \in {g \in [1..n -> 1..n] :
                      \A i, j \in 1..n : i # j => g[i] # g[j]}}

\* The messages the bot receives: those of users in a guild channel, one
\* of a bot and one outside a guild.
Inbound ==
    {m \in [chn : Chans, guild : BOOLEAN, bot : BOOLEAN,
            content : {<<"x">>, <<"A">>, <<"x", "b">>}] :
        (m.bot \/ ~m.guild) =>
            (m.chn = 1 /\ m.content = <<"A">> /\ (m.bot # ~m.guild))}

\* The channel of the trigger commands before any reply.
TrigChannel == <<MkMsg(1, "userShort"), MkMsg(2, "botTitle")>>

\* on_message up to its await (lines 212-251).
OnMessageStart(p, message) ==
    /\ TrigIdle(p)
    /\ nextId <= Len(TrigChannel) + MaxReplies
    /\ pre' = chan
    /\ log' = <<>>
    /\ IF message.bot \/ ~message.guild
       THEN /\ loc' = [loc EXCEPT ![p] = [InitLoc EXCEPT
                         !.cmd = "on_message", !.chn = message.chn,
                         !.inbound = message, !.db0 = disk.db]]
            /\ pc' = [pc EXCEPT ![p] = "done"]
       ELSE \E rows \in RowOrders(disk.db.rows, message.chn) :
               LET k == FirstMatch(rows, message.content)
               IN  /\ loc' = [loc EXCEPT ![p] = [InitLoc EXCEPT
                                !.cmd = "on_message", !.chn = message.chn,
                                !.inbound = message, !.db0 = disk.db,
                                !.rows = rows,
                                !.reply_content =
                                    IF k = 0 THEN <<>> ELSE ReplyContent(rows[k])]]
                   /\ pc' = [pc EXCEPT ![p] = IF k = 0 THEN "done" ELSE "om_reply"]
    /\ UNCHANGED <<chan, nextId, disk, catalog>>

\* await message.reply(reply_content, mention_author=True); a
\* discord.HTTPException is passed over.
OnMessageReply(p) ==
    /\ pc[p] = "om_reply"
    /\ pc' = [pc EXCEPT ![p] = "done"]
    /\ \/ /\ Send(loc[p].chn, loc[p].reply_content, <<>>, <<>>)
          /\ log' = Append(log, Call(p, "reply", nextId))
       \/ UNCHANGED <<chan, nextId, log>>
    /\ UNCHANGED <<disk, loc, pre, catalog>>

OnMessage(p) ==
    \/ \E message \in Inbound : OnMessageStart(p, message)
    \/ OnMessageReply(p)

InitTrig ==
    /\ chan = [c \in Chans |-> IF c = 1 THEN TrigChannel ELSE <<>>]
    /\ nextId = Len(TrigChannel) + 1
    /\ disk = InitDisk
    /\ pc = [p \in Procs |-> "idle"]
    /\ loc = [p \in Procs |-> InitLoc]
    /\ log = <<>>
    /\ pre = chan
    /\ catalog = [id \in ItemIds |-> NoName]

NextTrig ==
    \/ SetTrigger("A")
    \/ DeleteTrigger("A")
    \/ OnMessage("A")
    \/ TrigReturn("A")
    \/ Crash("A")

SpecTrig == InitTrig /\ [][NextTrig]_vars

\* The commands on the trigger table alone.
NextStore ==
    \/ SetTrigger("A")
    \/ DeleteTrigger("A")
    \/ TrigReturn("A")
    \/ Crash("A")

SpecStore == InitTrig /\ [][NextStore]_vars

(***************************************************************************)
(* Properties.                                                             *)
(***************************************************************************)
Payload(m) == <<m.content, m.attachments, m.embeds>>
Running(p, cmd) == pc[p] # "idle" /\ loc[p].cmd = cmd
Finished(p, cmd) == pc[p] = "done" /\ loc[p].cmd = cmd
Calls(p, what) == SelectSeq(log, LAMBDA e : e[1] = p /\ e[2] = what)
\* position of message id in a sequence of messages (0: not there)
PosOf(ms, id) ==
    IF \E i \in 1..Len(ms) : ms[i].id = id
    THEN CHOOSE i \in 1..Len(ms) : ms[i].id = id
    ELSE 0

\* C1: when insert_message completes, the target holds the inserted text,
\* every bot message newer than the target holds the content, attachments
\* and embeds the next older bot message held before, the appended message
\* holds what the newest bot message held, and the bot messages older than
\* the target are unchanged.
C1_InsertFinalState ==
    Finished("A", "insert_message") =>
        LET c == loc["A"].chn
            B == OwnedBy(pre[c], Bot)
            A == OwnedBy(chan[c], Bot)
            k == Len(B)
            t == PosOf(B, loc["A"].target)
        IN  /\ t \in 1..k
            /\ Len(A) = k + 1
            /\ \A j \in 1..k : A[j].id = B[j].id
            /\ A[t].content = InsertedContent
            /\ \A j \in (t + 1)..(k + 1) : Payload(A[j]) = Payload(B[j - 1])
            /\ \A j \in 1..(t - 1) : A[j] = B[j]

\* C1 witness: an insertion completed with two bot messages newer than the
\* target, so the shift walked a chain.
C1_Witness ==
    /\ Finished("A", "insert_message")
    /\ Len(loc["A"].ids) >= 3
    /\ Len(OwnedBy(pre[loc["A"].chn], User)) >= 1

\* C2: during insert_message the channel's ids are the ids it had when the
\* command was invoked, in the same order, followed (once the placeholder
\* is sent) by exactly one new id; the bot owns one more message, and the
\* messages of other authors are as they were.
C2_InsertKeepsIdentities ==
    Running("A", "insert_message") =>
        LET c == loc["A"].chn
            sent == Len(Calls("A", "send")) = 1
        IN  /\ pc["A"] \in {"ins_walk", "ins_fetch", "ins_edit", "ins_final", "done"}
                  => sent
            /\ IF sent
               THEN /\ Len(chan[c]) = Len(pre[c]) + 1
                    /\ SubSeq(IdSeq(chan[c]), 1, Len(pre[c])) = IdSeq(pre[c])
                    /\ chan[c][Len(chan[c])].id \notin Ids(pre[c])
                    /\ Len(OwnedBy(chan[c], Bot)) = Len(OwnedBy(pre[c], Bot)) + 1
               ELSE IdSeq(chan[c]) = IdSeq(pre[c])
            /\ \A i \in 1..Len(pre[c]) :
                  /\ chan[c][i].author = pre[c][i].author
                  /\ pre[c][i].author # Bot => chan[c][i] = pre[c][i]

\* C2 witness: a shift step has been made in a channel that also holds a
\* message of another author.
C2_Witness ==
    /\ Running("A", "insert_message")
    /\ Len(Calls("A", "shift")) >= 2
    /\ Len(OwnedBy(pre[loc["A"].chn], User)) >= 1

\* ids of the calls of one kind handler p made, in order
CallIds(p, what) == [j \in 1..Len(Calls(p, what)) |-> Calls(p, what)[j][3]]
\* the calls handler p made on the channel (sends, edits, deletes), in order
ChannelCalls(p) == SelectSeq(log, LAMBDA e : e[1] = p /\ e[2] # "respond")

\* C3: when republish completes it has deleted every original message,
\* each once and in channel order, none that it sent itself; the channel
\* holds as many messages as before, all of the bot, the i-th of them sent
\* right before the i-th original was deleted (and carrying its text, if the
\* original had text).
C3_RepublishFinalState ==
    Finished("A", "republish") =>
        LET c == loc["A"].chn
            n == Len(pre[c])
            calls == ChannelCalls("A")
        IN  /\ CallIds("A", "delete") = IdSeq(pre[c])
            /\ Ids(chan[c]) \cap Ids(pre[c]) = {}
            /\ Len(chan[c]) = n
            /\ \A i \in 1..n : chan[c][i].author = Bot
            /\ Len(calls) = 2 * n
            /\ \A i \in 1..n :
                  /\ calls[2 * i - 1] = <<"A", "send", chan[c][i].id>>
                  /\ calls[2 * i] = <<"A", "delete", pre[c][i].id>>
                  /\ pre[c][i].content # Empty =>
                        chan[c][i].content = RepublishedContent(pre[c][i])

\* C3 witness: a republish completed on a channel of three messages that
\* mixes authors.
C3_Witness ==
    /\ Finished("A", "republish")
    /\ Len(pre[loc["A"].chn]) >= 3
    /\ \E i, j \in 1..Len(pre[loc["A"].chn]) :
          /\ pre[loc["A"].chn][i].author = Bot
          /\ pre[loc["A"].chn][j].author = User

\* C4 (as claimed): after republish every replacement carries the
\* attachments and the embeds of the original it replaces, also when the
\* original has no text.
C4_RepublishKeepsAttachments ==
    Finished("A", "republish") =>
        LET c == loc["A"].chn
        IN  \A i \in 1..Len(pre[c]) :
               i <= Len(chan[c]) =>
                  /\ chan[c][i].attachments = pre[c][i].attachments
                  /\ chan[c][i].embeds = pre[c][i].embeds

\* C10: summary appends exactly one message, an embed titled as the table
\* of contents whose description has one entry per message with a title,
\* oldest first, each linking to that message; it edits and deletes nothing.
C10_SummaryReadThenWrite ==
    Finished("A", "summary") =>
        LET c == loc["A"].chn
            n == Len(pre[c])
            titled == {i \in 1..n : TitleMatch(pre[c][i].content)}
        IN  /\ Len(chan[c]) = n + 1
            /\ SubSeq(chan[c], 1, n) = pre[c]
            /\ \A d \in Chans \ {c} : chan[d] = pre[d]
            /\ Len(ChannelCalls("A")) = 1
            /\ ChannelCalls("A")[1] = <<"A", "send", chan[c][n + 1].id>>
            /\ chan[c][n + 1].id \notin Ids(pre[c])
            /\ chan[c][n + 1].content = Empty
            /\ Len(chan[c][n + 1].embeds) = 1
            /\ LET e == chan[c][n + 1].embeds[1] IN
                  /\ e.title = TocTitle
                  /\ Len(e.description) = Cardinality(titled)
                  /\ \A i \in titled : \E j \in 1..Len(e.description) :
                        /\ e.description[j].url = pre[c][i].id
                        /\ e.description[j].title = TitleText(pre[c][i].content)
                  /\ \A j, k \in 1..Len(e.description) :
                        j < k => PosOf(pre[c], e.description[j].url)
                                    < PosOf(pre[c], e.description[k].url)

\* C10 witness: a summary completed on a channel with two titled messages
\* and one untitled.
C10_Witness ==
    /\ Finished("A", "summary")
    /\ Len(chan[loc["A"].chn][Len(chan[loc["A"].chn])].embeds[1].description) = 2
    /\ Len(pre[loc["A"].chn]) = 3

\* The emoji filters undo each other on text c.
EmojiRoundTrips(c) == emojify(deemojify(c)) = c

\* C5 (as claimed): save_messages, then publish of the bundle into an empty
\* channel, yields as many messages as were exported, the i-th with the
\* text, the attachment bytes and the embed descriptions of the i-th
\* exported message (for texts on which the emoji filters undo each other).
C5_ExportImportRoundTrip ==
    (/\ Finished("A", "publish")
     /\ BundleExists
     /\ pre[loc["A"].chn] = <<>>) =>
        LET dst == chan[loc["A"].chn]
            src == pre[disk.json[1].chn_id]
        IN  /\ Len(dst) = Len(src)
            /\ \A i \in 1..Len(src) :
                  i <= Len(dst) =>
                     /\ EmojiRoundTrips(src[i].content)
                           => dst[i].content = src[i].content
                     /\ dst[i].attachments = src[i].attachments
                     /\ EmbedDescriptions(dst[i].embeds)
                           = EmbedDescriptions(src[i].embeds)

\* C6: the bundle save_messages writes is the header followed by one entry
\* per message of the channel, oldest first (the entry of a message has its
\* text without emoji markup, one image reference per attachment and its
\* embed descriptions); while it runs and when it ends no channel has
\* changed and no call was made on a message.
C6_BundleShape ==
    Running("A", "save_messages") =>
        LET c == loc["A"].chn
        IN  /\ chan = pre
            /\ ChannelCalls("A") = <<>>
            /\ pc["A"] = "done" =>
                  /\ Len(disk.json) = Len(pre[c]) + 1
                  /\ disk.json[1] = Header(c)
                  /\ \A i \in 1..Len(pre[c]) :
                        /\ disk.json[i + 1].content = deemojify(pre[c][i].content)
                        /\ Len(disk.json[i + 1].images) = Len(pre[c][i].attachments)
                        /\ disk.json[i + 1].embeds
                              = EmbedDescriptions(pre[c][i].embeds)

\* C6 witness: a bundle written for a channel of three messages.
C6_Witness ==
    /\ Finished("A", "save_messages")
    /\ Len(disk.json) = 4
    /\ \E i \in 2..4 : Len(disk.json[i].images) = 2

(***************************************************************************)
(* Properties of fix_item_links.  A display-link pair is "[text](url)":    *)
(* a text without brackets or line breaks, and a catalog URL with an item  *)
(* id and without blanks.                                                  *)
(***************************************************************************)
\* The end of the display-link pair that begins at the "[" at k (0: none).
PairEndAt(s, k) ==
    LET stops == {q \in (k + 1)..Len(s) : s[q] \in {"[", "]", "nl"}}
        q == IF stops = {} THEN 0 ELSE CHOOSE x \in stops : \A y \in stops : x <= y
    IN  IF /\ s[k] = "["
           /\ q # 0
           /\ q + 2 <= Len(s)
           /\ s[q] = "]"
           /\ s[q + 1] = "("
           /\ IsPrefix(s[q + 2])
           /\ LastItem(s, q + 3, RunEnd(s, q + 2)) # 0
           /\ RunEnd(s, q + 2) < Len(s)
           /\ s[RunEnd(s, q + 2) + 1] = ")"
        THEN RunEnd(s, q + 2) + 1
        ELSE 0

\* The display-link pairs of a text, left to right.
RECURSIVE PairSpans(_, _)
PairSpans(s, pos) ==
    IF pos > Len(s) THEN <<>>
    ELSE IF PairEndAt(s, pos) # 0
         THEN <<<<pos, PairEndAt(s, pos)>>>> \o PairSpans(s, PairEndAt(s, pos) + 1)
         ELSE PairSpans(s, pos + 1)

\* Every catalog URL of the text is the URL of a display-link pair.
AllLinksResolved(s) ==
    \A k \in 1..Len(s) :
        IsPrefix(s[k]) =>
            \E j \in 1..Len(PairSpans(s, 1)) :
                PairSpans(s, 1)[j][1] < k /\ k <= PairSpans(s, 1)[j][2]

\* The names the catalog has.
Resolved == [id \in {x \in ItemIds : catalog[x] # NoName} |-> catalog[id]]

\* C7: fix_item_links applied to its own output leaves it unchanged; and
\* applied to a text whose catalog links are all display-link pairs it
\* leaves the text unchanged (and asks the catalog nothing).
C7_FixIdempotent ==
    /\ (pc["A"] = "fix_done" /\ loc["A"].calls = 2)
          => loc["A"].answ.content = loc["A"].out1
    /\ (pc["A"] = "fix_done" /\ loc["A"].calls = 1
           /\ AllLinksResolved(loc["A"].orig))
          => /\ loc["A"].answ.content = loc["A"].orig
             /\ loc["A"].token = "none"

\* C7 witness: the second application returned, the first having rewritten
\* a bare link in a text that also held a display-link pair.
C7_Witness ==
    /\ pc["A"] = "fix_done"
    /\ loc["A"].calls = 2
    /\ loc["A"].out1 # loc["A"].orig
    /\ PairSpans(loc["A"].orig, 1) # <<>>

\* C8 (as claimed): fix_item_links leaves every display-link pair as it is
\* and rewrites every bare link, outside the pairs, whose id the catalog
\* resolved, wherever the bare links stand relative to the pairs.
C8_SpanPartition ==
    (pc["A"] = "fix_done" /\ loc["A"].calls = 1) =>
        loc["A"].answ.content
            = ReplaceWalk(loc["A"].orig, 1, PairSpans(loc["A"].orig, 1), Resolved)

\* C9: when the token request has failed, no name lookup was made, the
\* message text is as it was, the handler has ended with the error, and the
\* target of edit_message was not edited.
C9_TokenFailureAborts ==
    loc["A"].token = "failed" =>
        /\ pc["A"] = "failed"
        /\ loc["A"].lookups = <<>>
        /\ loc["A"].answ.content = loc["A"].orig
        /\ chan = pre
        /\ Calls("A", "edit") = <<>>

\* C9 witness: the token request failed in edit_message for a reply that
\* holds a bare link.
C9_Witness ==
    /\ loc["A"].cmd = "edit_message"
    /\ loc["A"].token = "failed"
    /\ loc["A"].item_ids # <<>>

C11_NoBundle ==
    /\ Finished("A", "publish")
    /\ ~BundleExists
    /\ Len(pre[loc["A"].chn]) >= 1

(***************************************************************************)
(* Properties of insert_message: the edge cases and the shift walk.        *)
(***************************************************************************)
\* The walk of insert_message is over: the id list is collected.
Walked(p) ==
    /\ loc[p].cmd = "insert_message"
    /\ pc[p] \in {"ins_fetch", "ins_edit", "ins_final", "done"}

\* The target was the newest message of the bot when the command was invoked.
TargetIsNewestOwned(p) ==
    LET B == OwnedBy(pre[loc[p].chn], Bot)
    IN  B # <<>> /\ B[Len(B)].id = loc[p].target

\* The placeholder insert_message appended: the newest message of the channel.
Placeholder(p) == chan[loc[p].chn][Len(chan[loc[p].chn])]

\* C12 (as claimed): when the target is the newest message of the bot at
\* invocation, the id list the walk collects has length one and no shift
\* step is executed.
C12_NewestTargetNoShift ==
    (Walked("A") /\ TargetIsNewestOwned("A")) =>
        /\ Len(loc["A"].ids) = 1
        /\ Calls("A", "shift") = <<>>

\* C12 (amended): when the target is the newest message of the bot at
\* invocation, the id list the walk collects has length two, the appended
\* placeholder and then the target; exactly one shift step is executed, the
\* copy of the target's content, attachments and embeds into the
\* placeholder, and after it the only other edit is the overwrite of the
\* target.
C12_NewestTargetOneShift ==
    (Walked("A") /\ TargetIsNewestOwned("A")) =>
        LET c == loc["A"].chn
            t == loc["A"].target
            ph == Placeholder("A")
        IN  /\ loc["A"].ids = <<ph.id, t>>
            /\ ph.id \notin Ids(pre[c])
            /\ pc["A"] \in {"ins_fetch", "ins_edit"} =>
                  /\ Calls("A", "shift") = <<>>
                  /\ Calls("A", "edit") = <<>>
            /\ pc["A"] \in {"ins_final", "done"} =>
                  /\ Calls("A", "shift") = << <<"A", "shift", ph.id>> >>
                  /\ Payload(ph) = Payload(Fetch(pre[c], t))
            /\ pc["A"] = "ins_final" => Calls("A", "edit") = <<>>
            /\ pc["A"] = "done" =>
                  /\ Calls("A", "edit") = << <<"A", "edit", t>> >>
                  /\ Fetch(chan[c], t).content = InsertedContent

\* C12 witness: an insertion before the newest message of the bot has
\* completed, in a channel where the bot has an older message too and
\* another author has the newest one.
C12_Witness ==
    /\ Finished("A", "insert_message")
    /\ TargetIsNewestOwned("A")
    /\ Len(OwnedBy(pre[loc["A"].chn], Bot)) >= 2
    /\ pre[loc["A"].chn][Len(pre[loc["A"].chn])].author = User

\* The target of the command is a message of another author.
ForeignTarget(p) == Fetch(pre[loc[p].chn], loc[p].target).author # Bot

\* C13 (as claimed): when the target is not among the bot's messages (it has
\* another author), insert_message makes no shift step and no overwrite of
\* the target: every message the channel held at invocation is as it was.
C13_ForeignTargetNoEdit ==
    (Running("A", "insert_message") /\ ForeignTarget("A")) =>
        LET c == loc["A"].chn
        IN  /\ Calls("A", "shift") = <<>>
            /\ Calls("A", "edit") = <<>>
            /\ SubSeq(chan[c], 1, Len(pre[c])) = pre[c]

\* C14: the shift steps are made one at a time in list order, and each
\* copies what its source held when the command was invoked: after i steps
\* the shift calls are the first i ids of the list, in order, the j-th
\* message of the list holds what the (j+1)-th held at invocation, and the
\* pair fetched for the next step is (ids[i+1], ids[i+2]) with the source
\* not yet written by any step and still holding its content of invocation.
C14_ShiftReadsOriginal ==
    Walked("A") =>
        LET c == loc["A"].chn
            ids == loc["A"].ids
            i == loc["A"].i
        IN  /\ i <= ShiftSteps(ids)
            /\ CallIds("A", "shift") = SubSeq(ids, 1, i)
            /\ \A j \in 1..i :
                  Payload(Fetch(chan[c], ids[j])) = Payload(Fetch(pre[c], ids[j + 1]))
            /\ pc["A"] = "ins_edit" =>
                  /\ loc["A"].crt.id = ids[i + 1]
                  /\ loc["A"].nxt.id = ids[i + 2]
                  /\ \A j \in 1..i : ids[j] # loc["A"].nxt.id
                  /\ Payload(loc["A"].nxt)
                        = Payload(Fetch(pre[c], loc["A"].nxt.id))

\* C14 witness: the pair of the third step has been fetched, two steps
\* having overwritten two messages.
C14_Witness ==
    /\ Walked("A")
    /\ pc["A"] = "ins_edit"
    /\ loc["A"].i = 2
    /\ Payload(Fetch(chan[loc["A"].chn], loc["A"].ids[2]))
          # Payload(Fetch(pre[loc["A"].chn], loc["A"].ids[2]))

\* The payloads of a sequence of messages.
Payloads(ms) == [j \in 1..Len(ms) |-> Payload(ms[j])]
\* A sequence without its d-th element.
Without(sq, d) == SubSeq(sq, 1, d - 1) \o SubSeq(sq, d + 1, Len(sq))

\* C15: in every state of insert_message before the overwrite of the target,
\* also in the state a failure at any step leaves, nothing the bot's messages
\* held at invocation is missing: once the placeholder is sent the bot's
\* messages are those of invocation with one slot more, and but for one slot
\* they hold, in order, the payloads of invocation; the slot over holds the
\* blank placeholder or a second copy of the payload of the slot before it
\* (so at most one payload is held twice).
C15_PartialShiftKeepsAll ==
    (/\ loc["A"].cmd = "insert_message"
     /\ pc["A"] \in {"ins_send", "ins_walk", "ins_fetch", "ins_edit",
                      "ins_final", "failed"}) =>
        LET c == loc["A"].chn
            B == OwnedBy(pre[c], Bot)
            A == OwnedBy(chan[c], Bot)
        IN  /\ \A m \in 1..Len(B) : \E j \in 1..Len(A) :
                  Payload(A[j]) = Payload(B[m])
            /\ IF Calls("A", "send") = <<>>
               THEN chan = pre
               ELSE /\ Len(A) = Len(B) + 1
                    /\ \E d \in 1..Len(A) :
                          /\ Payloads(Without(A, d)) = Payloads(B)
                          /\ \/ d = Len(A) /\ Payload(A[d]) = <<Blank, <<>>, <<>>>>
                             \/ d > 1 /\ Payload(A[d]) = Payload(A[d - 1])

\* C15 witness: a failure after the first of two shift steps has left the
\* channel partly shifted.
C15_Witness ==
    /\ loc["A"].cmd = "insert_message"
    /\ pc["A"] = "failed"
    /\ Len(Calls("A", "shift")) = 1
    /\ ShiftSteps(loc["A"].ids) = 2

(***************************************************************************)
(* Properties of republish.                                                *)
(***************************************************************************)
\* C16: in every state of republish, also the state a failure leaves, the
\* calls on the channel alternate send, delete; the deleted messages are
\* the first d originals in order and the sent ones are s new messages with
\* s = d or s = d + 1, standing after the originals that are left; so each
\* original is still there or the message sent for it is, and at most one
\* original stands in the channel together with the message sent for it.
C16_SendBeforeDelete ==
    Running("A", "republish") =>
        LET c == loc["A"].chn
            n == Len(pre[c])
            calls == ChannelCalls("A")
            dels == CallIds("A", "delete")
            sends == CallIds("A", "send")
            d == Len(dels)
            s == Len(sends)
        IN  /\ d <= s /\ s <= d + 1 /\ s <= n
            /\ dels = SubSeq(IdSeq(pre[c]), 1, d)
            /\ \A k \in 1..Len(calls) :
                  calls[k][2] = (IF k % 2 = 1 THEN "send" ELSE "delete")
            /\ \A j \in 1..s : sends[j] \notin Ids(pre[c])
            /\ IdSeq(chan[c]) = SubSeq(IdSeq(pre[c]), d + 1, n) \o sends
            /\ \A i \in 1..n :
                  \/ HasMsg(chan[c], pre[c][i].id)
                  \/ i <= s /\ HasMsg(chan[c], sends[i])
            /\ Cardinality({i \in 1..n : /\ HasMsg(chan[c], pre[c][i].id)
                                          /\ i <= s
                                          /\ HasMsg(chan[c], sends[i])}) <= 1
            /\ \A i \in 1..s :
                  pre[c][i].content # Empty =>
                     Fetch(chan[c], sends[i]).content = RepublishedContent(pre[c][i])

\* C16 witness: republish has failed between a send and the delete that
\* follows it, one original already replaced and deleted: the second
\* original and its replacement are both in the channel.
C16_Witness ==
    /\ loc["A"].cmd = "republish"
    /\ pc["A"] = "failed"
    /\ Len(Calls("A", "delete")) = 1
    /\ Len(Calls("A", "send")) = 2
    /\ HasMsg(chan[loc["A"].chn], pre[loc["A"].chn][2].id)

\* A table-of-contents message: no text, first embed titled as the table.
IsToc(m) == m.content = Empty /\ m.embeds # <<>> /\ m.embeds[1].title = TocTitle

\* C17 (as claimed): when republish completes on a channel that held a
\* table of contents, at whatever place, every entry of every regenerated
\* table links to a message of the final channel, and the entries are those
\* of the titled messages of the final channel, in channel order.
C17_TocIndexesNewRecords ==
    Finished("A", "republish") =>
        LET c == loc["A"].chn
        IN  \A k \in 1..Len(chan[c]) :
               IsToc(chan[c][k]) =>
                  LET entries == chan[c][k].embeds[1].description
                  IN  /\ \A j \in 1..Len(entries) : entries[j].url \in Ids(chan[c])
                      /\ entries = SummaryDescription(chan[c])

(***************************************************************************)
(* Properties of save_messages.                                            *)
(***************************************************************************)
\* C18 (as claimed): right after save_messages has handled a message with a
\* attachments, the image references of its entry are the files numbered
\* 0, 1, ..., a-1, pairwise distinct, and the j-th of them holds the bytes
\* of the j-th attachment.
C18_AttachmentNumbering ==
    (/\ loc["A"].cmd = "save_messages"
     /\ pc["A"] = "save_next"
     /\ loc["A"].i >= 1) =>
        LET msg == loc["A"].iter[loc["A"].i]
            entry == loc["A"].msgs[loc["A"].i + 1]
            a == Len(msg.attachments)
        IN  /\ entry.images = [j \in 1..a |-> j - 1]
            /\ \A j, k \in 1..a : j # k => entry.images[j] # entry.images[k]
            /\ \A j \in 1..a :
                  /\ entry.images[j] \in DOMAIN disk.png
                  /\ disk.png[entry.images[j]] = msg.attachments[j]

(***************************************************************************)
(* Properties of the name lookups of fix_item_links.                       *)
(***************************************************************************)
\* The elements of a sequence.
Range(sq) == {sq[j] : j \in 1..Len(sq)}

\* C19: once the token is there, the first call of fix_item_links submits
\* one lookup per unique id of the text's bare links, each id once; whatever
\* lookups fail and in whatever order they complete, the call does not end
\* in an error, the name table holds exactly the names of the completed
\* lookups that succeeded, and the text returned is the text with every
\* bare link of a resolved id rewritten and every bare link of a failed id
\* as it was: it is determined by the text and by which ids resolve, and no
\* bare link of a resolvable id is left in it.  (Bare link: a match of the
\* link pattern outside the matches of the display-link pattern.)
C19_LookupFailuresIsolated ==
    (/\ loc["A"].cmd = "fix_item_links"
     /\ loc["A"].calls = 1
     /\ loc["A"].token = "ok") =>
        LET ids == loc["A"].item_ids
            done == Range(ids) \ loc["A"].pending
        IN  /\ pc["A"] \in {"fix_lookup", "fix_rewrite", "fix_done"}
            /\ ids = ItemIdsOf(loc["A"].orig)
            /\ loc["A"].lookups = ids
            /\ Cardinality(Range(ids)) = Len(ids)
            /\ loc["A"].pending \subseteq Range(ids)
            /\ DOMAIN loc["A"].id_to_name = {id \in done : catalog[id] # NoName}
            /\ \A id \in DOMAIN loc["A"].id_to_name :
                  loc["A"].id_to_name[id] = catalog[id]
            /\ pc["A"] = "fix_done" =>
                  /\ loc["A"].pending = {}
                  /\ loc["A"].answ.content
                        = ReplaceWalk(loc["A"].orig, 1,
                                      FixedSpans(loc["A"].orig, 1), Resolved)
                  /\ \A id \in Range(ItemIdsOf(loc["A"].answ.content)) :
                        catalog[id] = NoName

\* C19 witness: the call has returned for a text with bare links of two
\* ids, the lookup of the first having failed and that of the second not:
\* the text is rewritten and still holds a bare link.
C19_Witness ==
    /\ loc["A"].cmd = "fix_item_links"
    /\ loc["A"].calls = 1
    /\ pc["A"] = "fix_done"
    /\ Len(loc["A"].item_ids) = 2
    /\ catalog[loc["A"].item_ids[1]] = NoName
    /\ catalog[loc["A"].item_ids[2]] # NoName
    /\ loc["A"].answ.content # loc["A"].orig
    /\ ItemIdsOf(loc["A"].answ.content) # <<>>

(***************************************************************************)
(* Properties of edit_message.                                             *)
(***************************************************************************)
\* The reply as fix_item_links leaves it when the catalog is asked.
Enriched(text) == ReplaceWalk(text, 1, FixedSpans(text, 1), Resolved)

\* C20: edit_message changes the channel by one edit of the target at most,
\* and only when the target is the bot's, a non-empty reply that is not
\* "cancel" in any letter case has arrived, and fix_item_links has returned;
\* what is written is the enriched reply (emojified; split at EMBED into
\* text and embed description).  In every other state, in particular for a
\* target of another author, after "cancel" and after the timeout, the
\* channel is as it was at invocation.
C20_EditOnlyOnSuccess ==
    loc["A"].cmd = "edit_message" =>
        LET c == loc["A"].chn
            t == loc["A"].target
            reply == loc["A"].orig
            old == Fetch(pre[c], t)
            new == Fetch(chan[c], t)
        IN  /\ IdSeq(chan[c]) = IdSeq(pre[c])
            /\ Len(Calls("A", "edit")) <= 1
            /\ Calls("A", "edit") = <<>> => chan = pre
            /\ old.author # Bot => chan = pre /\ pc["A"] = "done"
            /\ Lower(reply) = <<"cancel">> => chan = pre /\ pc["A"] = "done"
            /\ reply = <<>> => chan = pre
            /\ Calls("A", "edit") # <<>> =>
                  /\ pc["A"] = "done"
                  /\ Calls("A", "edit") = << <<"A", "edit", t>> >>
                  /\ old.author = Bot
                  /\ reply # <<>>
                  /\ Lower(reply) # <<"cancel">>
                  /\ loc["A"].token # "failed"
                  /\ loc["A"].answ.content = Enriched(reply)
                  /\ \A d \in Chans \ {c} : chan[d] = pre[d]
                  /\ IF EmbedMarks(Enriched(reply)) = {}
                     THEN /\ new.content = emojify(Enriched(reply))
                          /\ new.attachments = loc["A"].answ.attachments
                          /\ new.embeds = old.embeds
                          /\ \A id \in Range(ItemIdsOf(new.content)) :
                                catalog[id] = NoName
                     ELSE LET k == CHOOSE j \in EmbedMarks(Enriched(reply)) : TRUE
                          IN  /\ new.content
                                    = emojify(Strip(SubSeq(Enriched(reply), 1, k - 1)))
                              /\ new.attachments = old.attachments
                              /\ new.embeds
                                    = <<Embed(NoTitle,
                                              Strip(SubSeq(Enriched(reply), k + 1,
                                                           Len(Enriched(reply)))))>>

\* C20 witness: the target has been edited with a reply whose bare link the
\* catalog resolved, so what was written differs from the reply as typed.
C20_Witness ==
    /\ Finished("A", "edit_message")
    /\ Calls("A", "edit") # <<>>
    /\ loc["A"].item_ids # <<>>
    /\ loc["A"].answ.content # loc["A"].orig
    /\ Fetch(chan[loc["A"].chn], loc["A"].target).content
          = emojify(loc["A"].answ.content)

\* C20 witness, the other paths: the command has ended on "Cancel" with the
\* channel untouched.
C20_Cancelled ==
    /\ Finished("A", "edit_message")
    /\ loc["A"].orig = <<"Cancel">>
    /\ chan = pre

(***************************************************************************)
(* Properties of two insertions on one channel.                            *)
(***************************************************************************)
\* Both invocations have completed.
BothDone ==
    /\ Finished("A", "insert_message")
    /\ Finished("B", "insert_message")

\* Place in the log of the one entry of handler p of the given kind
\* (0: no such entry).
LogPos(p, what) ==
    IF \E k \in 1..Len(log) : log[k][1] = p /\ log[k][2] = what
    THEN CHOOSE k \in 1..Len(log) : log[k][1] = p /\ log[k][2] = what
    ELSE 0

\* The execution was serialized: one invocation made its last call, the
\* overwrite of its target, before the other made its first, the answer to
\* the interaction.
Serialized ==
    \/ LogPos("A", "edit") # 0 /\ LogPos("A", "edit") < LogPos("B", "respond")
    \/ LogPos("B", "edit") # 0 /\ LogPos("B", "edit") < LogPos("A", "respond")

\* How many of the bot's messages in channel c hold the payload pl.
Copies(c, pl) ==
    Cardinality({j \in 1..Len(OwnedBy(chan[c], Bot)) :
                    Payload(OwnedBy(chan[c], Bot)[j]) = pl})

\* Every payload the bot's messages held before the two insertions is held
\* by exactly one of the bot's messages now.
EachKeptOnce ==
    \A m \in 1..Len(OwnedBy(pre[1], Bot)) :
        Copies(1, Payload(OwnedBy(pre[1], Bot)[m])) = 1

\* C21: when two insertions on one channel have both completed and were
\* serialized, in either order, the bot owns two messages more than before
\* and every payload its messages held before is held exactly once.  (That
\* some interleaving does not keep this is the state C21_Witness.)
C21_SerializedKeepsAll ==
    (BothDone /\ loc["A"].chn = 1 /\ loc["B"].chn = 1 /\ Serialized) =>
        /\ Len(OwnedBy(chan[1], Bot)) = Len(OwnedBy(pre[1], Bot)) + 2
        /\ EachKeptOnce

\* C21 witness: two interleaved insertions on one channel have both
\* completed and a payload the bot's messages held before is held by none
\* of them, while another is held twice: a result neither serial order
\* gives.
C21_Witness ==
    /\ BothDone
    /\ loc["A"].chn = 1 /\ loc["B"].chn = 1
    /\ ~Serialized
    /\ \E m \in 1..Len(OwnedBy(pre[1], Bot)) :
          Copies(1, Payload(OwnedBy(pre[1], Bot)[m])) = 0
    /\ \E m \in 1..Len(OwnedBy(pre[1], Bot)) :
          Copies(1, Payload(OwnedBy(pre[1], Bot)[m])) = 2

\* Two serialized insertions have completed on a channel where the bot had
\* two messages.
C21_SerialRun ==
    /\ BothDone
    /\ Serialized
    /\ Len(OwnedBy(pre[1], Bot)) = 2

\* Handler p has told the caller that the message was inserted.
ReportedInserted(p) ==
    \E k \in 1..Len(log) : log[k] = Respond(p, "Inserted empty message")

\* C22 (as claimed): insert_message tells the caller of success only when
\* the shift walk and the overwrite of the target are done; a run that has
\* failed has not reported success.
C22_ReportsOnlyFinal ==
    (loc["A"].cmd = "insert_message" /\ ReportedInserted("A")) =>
        /\ pc["A"] = "done"
        /\ Calls("A", "edit") # <<>>

\* The rows of a table as a set.
RowSet(rows) == {rows[k] : k \in 1..Len(rows)}
\* The rows stored for channel c and message id mid.
OfPair(rows, c, mid) ==
    {r \in RowSet(rows) : r.channel_id = c /\ r.message_id = mid}
\* No two rows with a message id have the same channel and message id.
KeysUnique(rows) ==
    \A i, j \in 1..Len(rows) :
        (/\ i # j
         /\ rows[i].message_id # NoId
         /\ rows[i].channel_id = rows[j].channel_id)
            => rows[i].message_id # rows[j].message_id
\* The message id set_trigger / delete_trigger was given by its URL.
GivenId(p) ==
    IF loc[p].args.message_url # NoUrl /\ UrlMatches(loc[p].args.message_url)
    THEN UrlMessage(loc[p].args.message_url) ELSE NoId
\* The arguments of set_trigger do not pass its validation.
SetRejected(p) ==
    \/ /\ loc[p].args.message_url # NoUrl
       /\ \/ ~UrlMatches(loc[p].args.message_url)
          \/ FetchOutcome(loc[p].args.message_url) # "ok"
    \/ loc[p].args.patterns = <<" ">>
    \/ \E k \in 1..Len(loc[p].args.patterns) : loc[p].args.patterns[k] = "("
\* set_trigger of p has ended and has stored its trigger.
SetStored(p) ==
    /\ loc[p].cmd = "set_trigger"
    /\ pc[p] = "done"
    /\ ~SetRejected(p)
\* The rows of the table that the table at the call of p did not hold.
NewRows(p) == RowSet(disk.db.rows) \ RowSet(loc[p].db0.rows)
\* The rows of the table at the call of p that the table holds no more.
GoneRows(p) == RowSet(loc[p].db0.rows) \ RowSet(disk.db.rows)

\* C23: the table never holds two triggers with the same channel and
\* message id (for rows that have a message id).  A set_trigger that has
\* ended replaces what was stored for its pair: the table is the one at its
\* call without the rows of (invoking channel, message id) and with one new
\* row made of its arguments.  A set_trigger whose arguments fail the
\* validation (bad URL, message not found or forbidden, no pattern, invalid
\* pattern) leaves the table as it was, and so does one that fails: it
\* fails before any statement.  A delete_trigger that has ended has removed
\* the rows of (invoking channel, message id) and no other.
C23_TriggerKeys ==
    /\ KeysUnique(disk.db.rows)
    /\ \A p \in Procs :
          (loc[p].cmd = "set_trigger" /\ (SetRejected(p) \/ pc[p] # "done")) =>
              /\ disk.db = loc[p].db0
              /\ Calls(p, "sql") = <<>>
    /\ \A p \in Procs :
          SetStored(p) =>
              /\ GoneRows(p) = IF GivenId(p) = NoId THEN {}
                               ELSE OfPair(loc[p].db0.rows, loc[p].chn, GivenId(p))
              /\ \E r \in RowSet(disk.db.rows) :
                    /\ NewRows(p) = {r}
                    /\ r.channel_id = loc[p].chn
                    /\ r.message_id = GivenId(p)
                    /\ r.message_url = loc[p].args.message_url
                    /\ r.response_text = loc[p].args.response_text
                    /\ r.patterns = IF loc[p].args.patterns = <<"a">>
                                    THEN <<"a">> ELSE <<"a", ",", "b">>
                    /\ GivenId(p) # NoId =>
                          OfPair(disk.db.rows, loc[p].chn, GivenId(p)) = {r}
              /\ Len(disk.db.rows) = Cardinality(RowSet(disk.db.rows))
    /\ \A p \in Procs :
          (loc[p].cmd = "delete_trigger" /\ pc[p] = "done") =>
              /\ NewRows(p) = {}
              /\ GoneRows(p) = IF GivenId(p) = NoId THEN {}
                               ELSE OfPair(loc[p].db0.rows, loc[p].chn, GivenId(p))

\* C23 witness: set_trigger has ended for a pair (channel, message id) that
\* had a trigger with another response; the table holds the new trigger for
\* the pair and not the old one.
C23_Witness ==
    /\ SetStored("A")
    /\ GivenId("A") # NoId
    /\ \E old \in OfPair(loc["A"].db0.rows, loc["A"].chn, GivenId("A")) :
          /\ old.response_text # loc["A"].args.response_text
          /\ old \notin RowSet(disk.db.rows)
    /\ Cardinality(OfPair(disk.db.rows, loc["A"].chn, GivenId("A"))) = 1

\* delete_trigger has removed the trigger of its channel and left the
\* trigger another channel has for the same message id.
C23_DeletedOwnOnly ==
    /\ loc["A"].cmd = "delete_trigger" /\ pc["A"] = "done"
    /\ GoneRows("A") # {}
    /\ \E r \in RowSet(disk.db.rows) :
          r.message_id = GivenId("A") /\ r.channel_id # loc["A"].chn

\* Two triggers without a message id are stored for one channel.
C23_TwoWithoutId ==
    \E i, j \in 1..Len(disk.db.rows) :
        /\ i # j
        /\ disk.db.rows[i].message_id = NoId
        /\ disk.db.rows[j].message_id = NoId
        /\ disk.db.rows[i].channel_id = disk.db.rows[j].channel_id

\* Row r has a pattern that matches the content.
Matching(r, content) ==
    \E i \in 1..Len(r.patterns) : \E k \in 1..Len(content) :
        r.patterns[i] # "," /\ LowerTok(content[k]) = r.patterns[i]
\* The messages the channel of the inbound message has gained since
\* on_message of p began.
TrigReplies(p) ==
    SubSeq(chan[loc[p].chn], Len(pre[loc[p].chn]) + 1, Len(chan[loc[p].chn]))

\* C24: on_message sends at most one reply for its inbound message, and no
\* other message; the reply is the one of the first row, in the order the
\* rows of the channel were read, that has a pattern matching the content,
\* and there is none when no row read has such a pattern.  Nothing is sent
\* for a message of a bot or one outside a guild, and the trigger table
\* stays as it was.
C24_OneReplyFirstMatch ==
    \A p \in Procs : loc[p].cmd = "on_message" =>
        /\ disk.db = loc[p].db0
        /\ Len(TrigReplies(p)) <= 1
        /\ Len(TrigReplies(p)) = Len(Calls(p, "reply"))
        /\ \A c \in Chans : c # loc[p].chn => chan[c] = pre[c]
        /\ (loc[p].inbound.bot \/ ~loc[p].inbound.guild) =>
              TrigReplies(p) = <<>> /\ pc[p] = "done"
        /\ RowSet(loc[p].rows) \subseteq
              {r \in RowSet(disk.db.rows) : r.channel_id = loc[p].chn}
        /\ (~loc[p].inbound.bot /\ loc[p].inbound.guild) =>
              /\ RowSet(loc[p].rows) =
                    {r \in RowSet(disk.db.rows) : r.channel_id = loc[p].chn}
              /\ (\A k \in 1..Len(loc[p].rows) :
                        ~Matching(loc[p].rows[k], loc[p].inbound.content))
                    => (pc[p] = "done" /\ TrigReplies(p) = <<>>)
        /\ TrigReplies(p) # <<>> =>
              \E k \in 1..Len(loc[p].rows) :
                  /\ Matching(loc[p].rows[k], loc[p].inbound.content)
                  /\ \A j \in 1..(k - 1) :
                        ~Matching(loc[p].rows[j], loc[p].inbound.content)
                  /\ TrigReplies(p)[1].author = Bot
                  /\ TrigReplies(p)[1].content = ReplyContent(loc[p].rows[k])

\* C24 witness: on_message has replied to a message that two triggers of
\* its channel match, with the reply of the one read first, which is not
\* the one stored first.
C24_Witness ==
    /\ loc["A"].cmd = "on_message" /\ pc["A"] = "done"
    /\ Len(TrigReplies("A")) = 1
    /\ Len(loc["A"].rows) = 2
    /\ loc["A"].rows[1].id > loc["A"].rows[2].id
    /\ Matching(loc["A"].rows[1], loc["A"].inbound.content)
    /\ Matching(loc["A"].rows[2], loc["A"].inbound.content)
    /\ ReplyContent(loc["A"].rows[1]) # ReplyContent(loc["A"].rows[2])
    /\ TrigReplies("A")[1].content = ReplyContent(loc["A"].rows[1])

\* on_message has ended without a reply for a message of a bot that a
\* trigger of its channel matches.
C24_BotIgnored ==
    /\ loc["A"].cmd = "on_message" /\ pc["A"] = "done"
    /\ loc["A"].inbound.bot
    /\ \E r \in RowSet(disk.db.rows) :
          r.channel_id = loc["A"].chn /\ Matching(r, loc["A"].inbound.content)

====
